---- MODULE Spec2Model ----
(***************************************************************************)
(* A model of the BX middle end: the RTL container (rtl::Callable), the    *)
(* source-to-RTL lowering (rtl::RtlGen) and the RTL-to-assembly            *)
(* translation (bx::InstrCompiler).                                        *)
(*                                                                         *)
(* Source ASTs and RTL instructions are records; the generator is a record *)
(* that the visit operators thread through, exactly as the C++ visitor     *)
(* mutates its members.  A thrown std::runtime_error is the flag `thrown`: *)
(* once set, add_instr installs nothing more and the constructor delivers  *)
(* no Callable.                                                            *)
(***************************************************************************)
EXTENDS Integers, Sequences, FiniteSets, TLC

VARIABLES
  src_cbl,    \* the source::Callable being lowered
  gen,        \* the RtlGen object (with the process-wide counters it draws from)
  pc,         \* position of the running operation
  next_stmt,  \* index of the next statement of the callable's body block
  cbl,        \* a free-standing rtl::Callable driven directly through add_instr
  last_call,  \* outcome of the latest add_instr call on cbl
  expr,       \* a bool expression lowered on its own
  env,        \* run-time values: variables and call results
  mach,       \* an RTL machine executing the lowered expression
  mv,         \* the rtl::Move handed to InstrCompiler::visit
  icomp,      \* the InstrCompiler object
  src_prog,   \* the source::Program the driver compiles
  process,    \* the namespace-scope variables of ast_rtl.cpp
  outputs,    \* what each compilation run in this process handed out
  factory     \* the call of an Asm factory function whose line is written out

vars == <<src_cbl, gen, pc, next_stmt, cbl, last_call, expr, env, mach, mv, icomp,
         src_prog, process, outputs, factory>>

\* the variables of a compilation of a whole source::Program
units == <<src_prog, process, outputs, factory>>

----------------------------------------------------------------------------
(* Bounds of the model *)

\* statements in the body of a lowered callable
MaxStmts == 2
\* formal parameters of a lowered callable, arguments of a lowered call
MaxArity == 8
\* add_instr calls made on a free-standing Callable
MaxAdds == 4
\* labels offered to add_instr on a free-standing Callable: 0..MaxLabel
MaxLabel == 2
\* instructions the RTL machine executes before it is stopped
MaxSteps == 12

(* Program constants *)

\* number of arguments passed in registers
NumRegArgs == 6
\* number of callee-saved registers
NumCalleeSaved == 6
\* rtl::discard_pr and the initial false_label / result / address
DiscardId == -1

callee_saved == <<"rbx", "rbp", "r12", "r13", "r14", "r15">>
regargs == <<"rdi", "rsi", "rdx", "rcx", "r8", "r9">>

\* the `next` parameter of the instruction makers handed to add_sequential
NEXT == -2

EmptyMap == [x \in {} |-> 0]

Max(a, b) == IF a > b THEN a ELSE b
Min(a, b) == IF a < b THEN a ELSE b

\* K applied to the value of v: a step's outcome, named for the steps after it
Bind(v, K(_)) == K(v)

----------------------------------------------------------------------------
(* rtl::Callable *)

NewCallable(name) ==
  [name |-> name, enter |-> DiscardId, leave |-> DiscardId, input_regs |-> <<>>,
   output_reg |-> DiscardId, body |-> EmptyMap, schedule |-> <<>>]

\* add_instr with the push_back moved above the membership test
add_instr_push_first(c, lab, instr) ==
  LET c1 == [c EXCEPT !.schedule = Append(@, lab)]
  IN IF lab \in DOMAIN c.body
       THEN [cbl |-> c1, thrown |-> TRUE, what |-> "repeated in-label"]
       ELSE [cbl |-> [c1 EXCEPT !.body = (lab :> instr) @@ @],
             thrown |-> FALSE, what |-> ""]

\* add_instr with insert_or_assign moved above the membership test
add_instr_assign_first(c, lab, instr) ==
  IF lab \in DOMAIN c.body
    THEN [cbl |-> [c EXCEPT !.body = (lab :> instr) @@ @],
          thrown |-> TRUE, what |-> "repeated in-label"]
    ELSE [cbl |-> [c EXCEPT !.schedule = Append(@, lab),
                            !.body = (lab :> instr) @@ @],
          thrown |-> FALSE, what |-> ""]

\* Callable::add_instr: the Callable after the call, whether it threw, and
\* the what() of the exception
add_instr(c, lab, instr) ==
  IF lab \in DOMAIN c.body
    THEN [cbl |-> c, thrown |-> TRUE, what |-> "repeated in-label"]
    ELSE [cbl |-> [c EXCEPT !.schedule = Append(@, lab),
                            !.body = (lab :> instr) @@ @],
          thrown |-> FALSE, what |-> ""]

\* successor labels of an instruction
Succs(i) ==
  CASE i.op = "Return" -> {}
    [] i.op \in {"Ubranch", "Bbranch"} -> {i.succ, i.fail}
    [] OTHER -> {i.succ}

----------------------------------------------------------------------------
(* The source program around the lowered callable: the callables a call   *)
(* expression may name (source_prog.callables), by parameter types and     *)
(* return type; UNKNOWN is the return type of a procedure.                 *)

source_prog ==
  [f   |-> [return_ty |-> "BOOL"],      \* fun f() : bool
   g   |-> [return_ty |-> "BOOL"],      \* fun g() : bool
   h   |-> [return_ty |-> "UNKNOWN"],   \* proc h(b : bool)
   k   |-> [return_ty |-> "UNKNOWN"],   \* proc k(b : bool)
   sum |-> [return_ty |-> "INT64"],     \* fun sum(x1, ..., xn : int64) : int64
   put |-> [return_ty |-> "UNKNOWN"]]   \* proc put(x1, ..., xn : int64)

\* source::sizeOf for the scalar types
sizeOf(ty) == 8

\* source::sizeOf for a list type of lst.length elements of type lst.typ
sizeOfList(lst) == lst.length * sizeOf(lst.typ)

----------------------------------------------------------------------------
(* rtl::RtlGen *)

\* rtl_cbl.add_instr(...) as called by the generator: an exception ends the
\* lowering, so nothing is installed after it
rtl_add_instr(g, lab, instr) ==
  IF g.thrown THEN g
  ELSE LET r == add_instr(g.rtl_cbl, lab, instr)
       IN [g EXCEPT !.rtl_cbl = r.cbl, !.thrown = r.thrown]

WithSucc(instr, l) ==
  IF "succ" \in DOMAIN instr /\ instr.succ = NEXT
    THEN [instr EXCEPT !.succ = l] ELSE instr

add_sequential(g, instr) ==
  LET next_label == g.last_label
      g1 == rtl_add_instr([g EXCEPT !.last_label = @ + 1], g.in_label,
                          WithSucc(instr, next_label))
  IN [g1 EXCEPT !.in_label = next_label]

RECURSIVE add_sequential_all(_, _)
\* a loop body that calls add_sequential once per element
add_sequential_all(g, instrs) ==
  IF instrs = <<>> THEN g
  ELSE add_sequential_all(add_sequential(g, Head(instrs)), Tail(instrs))

intify(g) ==
  LET res == g.last_pseudo
      next_label == g.last_label
      g1 == [g EXCEPT !.result = res, !.last_pseudo = @ + 1,
                      !.lastoffset = @ + 8, !.last_label = @ + 1]
      g2 == rtl_add_instr(g1, g.in_label,
              [op |-> "Move", source |-> 1, dest |-> res, succ |-> next_label])
      g3 == rtl_add_instr(g2, g.false_label,
              [op |-> "Move", source |-> 0, dest |-> res, succ |-> next_label])
  IN [g3 EXCEPT !.in_label = next_label]

\* copy_of_result: the generator afterwards; the copy is its field `result`
copy_of_result(g) ==
  LET reg == g.last_pseudo
      g1 == [g EXCEPT !.last_pseudo = @ + 1, !.lastoffset = @ + 8]
      g2 == add_sequential(g1,
              [op |-> "Copy", src |-> g.result, dest |-> reg, succ |-> NEXT])
  IN [g2 EXCEPT !.result = reg]

\* get_pseudo(v, offset): the generator afterwards
get_pseudo(g, v, offset) ==
  IF v \in DOMAIN g.global_var_init
    THEN IF v \notin DOMAIN g.gvar_table
      THEN LET ps == g.last_pseudo
               g1 == [g EXCEPT !.last_pseudo = @ + 1, !.lastoffset = @ + offset]
               g2 == add_sequential(g1,
                       [op |-> "Load", src |-> v, offset |-> 0, dest |-> ps,
                        base |-> DiscardId, mreg |-> "rip", succ |-> NEXT])
           IN [g2 EXCEPT !.gvar_table = (v :> ps) @@ @]
      ELSE g
  ELSE IF v \notin DOMAIN g.var_table
    THEN [g EXCEPT !.var_table = (v :> g.last_pseudo) @@ @,
                   !.var_offset = (v :> g.lastoffset) @@ @,
                   !.last_pseudo = @ + 1,
                   !.lastoffset = @ + offset]
    ELSE g

\* the pseudo get_pseudo returns
pseudo_of(g, v) ==
  IF v \in DOMAIN g.global_var_init THEN g.gvar_table[v] ELSE g.var_table[v]

\* std::vector<Pseudo>::operator[] at a C++ index: an index past the end
\* reads whatever the build left there
vec_at(vec, i, oob) == IF i + 1 \in 1..Len(vec) THEN vec[i + 1] ELSE oob


(* Expression visitors.  An expression node carries the type the type      *)
(* checker stored in its meta->ty.                                         *)

IntBinops == {"Add", "Subtract", "Multiply", "Divide", "Modulus",
              "BitAnd", "BitOr", "BitXor", "Lshift", "Rshift"}

rtl_binop(op) ==
  CASE op = "Add" -> "ADD" [] op = "Subtract" -> "SUB" [] op = "Multiply" -> "MUL"
    [] op = "Divide" -> "DIV" [] op = "Modulus" -> "REM" [] op = "BitAnd" -> "AND"
    [] op = "BitOr" -> "OR" [] op = "BitXor" -> "XOR" [] op = "Lshift" -> "SAL"
    [] op = "Rshift" -> "SAR"

rtl_bbranch(op) ==
  CASE op = "Lt" -> "JL" [] op = "Leq" -> "JLE" [] op = "Gt" -> "JG"
    [] op = "Geq" -> "JGE" [] op = "Eq" -> "JE" [] op = "Neq" -> "JNE"

visitVariable(g, v) ==
  Bind(get_pseudo(g, v.label, sizeOf(v.ty)), LAMBDA g1 :
  Bind([g1 EXCEPT !.result = pseudo_of(g1, v.label)], LAMBDA g2 :
    IF v.ty = "BOOL"
      THEN LET fl == g2.last_label
           IN add_sequential([g2 EXCEPT !.false_label = fl, !.last_label = @ + 1],
                             [op |-> "Ubranch", opcode |-> "JNZ",
                              arg |-> g2.result, succ |-> NEXT, fail |-> fl])
      ELSE g2))

visitIntConstant(g, kc) ==
  LET res == g.last_pseudo
      g1 == [g EXCEPT !.result = res, !.last_pseudo = @ + 1, !.lastoffset = @ + 8]
  IN add_sequential(g1, [op |-> "Move", source |-> kc.value, dest |-> res,
                         succ |-> NEXT])

visitBoolConstant(g, kc) ==
  IF kc.value
    THEN [g EXCEPT !.false_label = g.last_label, !.last_label = @ + 1]
    ELSE [g EXCEPT !.false_label = g.in_label, !.in_label = g.last_label,
                   !.last_label = @ + 1]

\* the CopyPM and Push instructions visit(Call) emits for evaluated arguments
call_placement(args, oob) ==
  LET nArgs == Len(args)
      copies(n) == [i \in 1..n |->
                      [op |-> "CopyPM", src |-> vec_at(args, i - 1, oob),
                       dest |-> regargs[i], succ |-> NEXT]]
      pushes == [j \in 1..(nArgs - 5) |->
                      [op |-> "Push", dest |-> vec_at(args, nArgs - (j - 1), oob),
                       succ |-> NEXT]]
  IN IF ~(nArgs > NumRegArgs) THEN copies(nArgs)
     ELSE copies(NumRegArgs) \o pushes

RECURSIVE visit(_, _)
RECURSIVE visit_args(_, _, _)

\* the argument loop of visit(Call): the generator afterwards and the vector args
visit_args(g, es, args) ==
  IF es = <<>> THEN [g |-> g, args |-> args]
  ELSE Bind(visit(g, Head(es)), LAMBDA g1 :
         visit_args(g1, Tail(es), Append(args, g1.result)))

visitUnopApp(g, uo) ==
  Bind(visit(g, uo.arg), LAMBDA g1 :
    IF uo.op \in {"BitNot", "Negate"}
      THEN Bind(copy_of_result(g1), LAMBDA g2 :
             add_sequential(g2, [op |-> "Unop",
               opcode |-> IF uo.op = "BitNot" THEN "NOT" ELSE "NEG",
               arg |-> g2.result, succ |-> NEXT]))
      ELSE [g1 EXCEPT !.false_label = g1.in_label, !.in_label = g1.false_label])

visitIntBinop(g, bo) ==
  Bind(copy_of_result(visit(g, bo.left_arg)), LAMBDA g2 :
  Bind(visit(g2, bo.right_arg), LAMBDA g3 :
    LET left_result == g2.result
        right_result == g3.result
    IN [add_sequential(g3, [op |-> "Binop", opcode |-> rtl_binop(bo.op),
                            src |-> right_result, dest |-> left_result,
                            succ |-> NEXT])
          EXCEPT !.result = left_result]))

visitBoolBinop(g, bo) ==
  Bind(visit(g, bo.left_arg), LAMBDA g1 :
    LET left_true_label == g1.in_label
        left_false_label == g1.false_label
    IN Bind(visit([g1 EXCEPT !.in_label = IF bo.op = "BoolAnd"
                                            THEN left_true_label
                                            ELSE left_false_label],
                  bo.right_arg), LAMBDA g3 :
         LET right_true_label == g3.in_label
             right_false_label == g3.false_label
         IN IF bo.op = "BoolAnd"
              THEN [rtl_add_instr(g3, right_false_label,
                                  [op |-> "Goto", succ |-> left_false_label])
                      EXCEPT !.false_label = left_false_label]
              ELSE [rtl_add_instr(g3, right_true_label,
                                  [op |-> "Goto", succ |-> left_true_label])
                      EXCEPT !.in_label = left_true_label]))

visitIneqop(g, bo) ==
  Bind(visit(g, bo.left_arg), LAMBDA g1 :
  Bind(visit(g1, bo.right_arg), LAMBDA g2 :
    LET left_result == g1.result
        right_result == g2.result
        fl == g2.last_label
    IN add_sequential([g2 EXCEPT !.false_label = fl, !.last_label = @ + 1],
                      [op |-> "Bbranch", opcode |-> rtl_bbranch(bo.op),
                       arg1 |-> left_result, arg2 |-> right_result,
                       succ |-> NEXT, fail |-> fl])))

visitEqop(g, bo) ==
  Bind(visit(g, bo.left_arg), LAMBDA g1 :
  Bind(IF bo.left_arg.ty = "BOOL" THEN intify(g1) ELSE g1, LAMBDA g2 :
  Bind(visit(g2, bo.right_arg), LAMBDA g3 :
  Bind(IF bo.right_arg.ty = "BOOL" THEN intify(g3) ELSE g3, LAMBDA g4 :
    LET left_result == g2.result
        fl == g4.last_label
    IN add_sequential([g4 EXCEPT !.false_label = fl, !.last_label = @ + 1],
                      [op |-> "Bbranch", opcode |-> rtl_bbranch(bo.op),
                       arg1 |-> left_result, arg2 |-> g4.result,
                       succ |-> NEXT, fail |-> fl])))))

visitBinopApp(g, bo) ==
  CASE bo.op \in IntBinops -> visitIntBinop(g, bo)
    [] bo.op \in {"BoolAnd", "BoolOr"} -> visitBoolBinop(g, bo)
    [] bo.op \in {"Lt", "Leq", "Gt", "Geq"} -> visitIneqop(g, bo)
    [] bo.op \in {"Eq", "Neq"} -> visitEqop(g, bo)

visitCall(g, ca) ==
  Bind(visit_args(g, ca.args, <<>>), LAMBDA r :
  Bind(add_sequential_all(r.g, call_placement(r.args, g.oob)), LAMBDA g1 :
    LET nArgs == Len(r.args)
        returns == source_prog[ca.func].return_ty # "UNKNOWN"
    IN Bind(add_sequential(
              IF returns
                THEN [g1 EXCEPT !.result = g1.last_pseudo, !.last_pseudo = @ + 1,
                                !.lastoffset = @ + 8]
                ELSE [g1 EXCEPT !.result = DiscardId],
              [op |-> "Call", func |-> ca.func, Nargs |-> nArgs, succ |-> NEXT]),
            LAMBDA g3 :
         IF returns
           THEN add_sequential(g3, [op |-> "CopyMP", src |-> "rax",
                                    dest |-> g3.result, succ |-> NEXT])
           ELSE g3)))

(* L-value visitors (source::Addressor) *)

\* rtl::CopyAP, dst <- effective address symbol+offset(mreg, base)
visitAddressVariable(g, va) ==
  LET v == va.label
  IN Bind(IF v \in DOMAIN g.global_var_init
            THEN LET ps == g.last_pseudo
                 IN [add_sequential(
                       [g EXCEPT !.last_pseudo = @ + 1, !.lastoffset = @ + 8],
                       [op |-> "CopyAP", src |-> v, offset |-> -1,
                        mreg |-> "rip", base |-> DiscardId, dest |-> ps,
                        succ |-> NEXT])
                       EXCEPT !.address = ps]
            ELSE g, LAMBDA g1 :
       IF v \in DOMAIN g1.var_offset
         THEN LET ps == g1.last_pseudo
              IN [add_sequential(
                    [g1 EXCEPT !.last_pseudo = @ + 1, !.lastoffset = @ + 8],
                    [op |-> "CopyAP", src |-> "", offset |-> -(g1.var_offset[v]),
                     mreg |-> "rbp", base |-> DiscardId, dest |-> ps,
                     succ |-> NEXT])
                    EXCEPT !.address = ps]
         ELSE g1)

RECURSIVE acceptAddress(_, _)

\* the constant the list visitors make for the size of an element: a list
\* expression of list type gives sizeOf of its element type
element_scale(lst) == [k |-> "IntConstant", value |-> sizeOf(lst.typ), ty |-> "INT64"]

\* visitAddress(source::ListElem)
visitAddressListElem(g, lelm) ==
  Bind(acceptAddress(g, lelm.lst), LAMBDA g1 :
  Bind(visit(g1, lelm.idx), LAMBDA g2 :
  Bind(visitIntConstant(g2, element_scale(lelm.lst)), LAMBDA g3 :
    LET tmpaddr == g1.address
        tmpidx == g2.result
        ps == g3.last_pseudo
    IN [add_sequential_all(
          [g3 EXCEPT !.last_pseudo = @ + 1, !.lastoffset = @ + 8],
          << [op |-> "Binop", opcode |-> "MUL", src |-> g3.result,
              dest |-> tmpidx, succ |-> NEXT],
             [op |-> "Binop", opcode |-> "SUB", src |-> tmpidx,
              dest |-> tmpaddr, succ |-> NEXT] >>
          \o << [op |-> "CopyAP", src |-> "", offset |-> 0, mreg |-> "rip",
                 base |-> tmpaddr, dest |-> ps, succ |-> NEXT] >>)
          EXCEPT !.address = ps])))

\* Expr::acceptAddress: NOT_ADDRESSABLE nodes return without visiting
acceptAddress(g, e) ==
  CASE e.k = "Variable" -> visitAddressVariable(g, e)
    [] e.k = "ListElem" -> visitAddressListElem(g, e)
    [] OTHER -> g

\* visit(source::Alloc)
visitAlloc(g, al) ==
  Bind(visitIntConstant(g, [k |-> "IntConstant", value |-> sizeOf(al.typ),
                            ty |-> "INT64"]), LAMBDA g1 :
  Bind(visit(g1, al.size), LAMBDA g2 :
    LET scale == g1.result
        length == g2.result
    IN Bind(add_sequential_all(g2,
              << [op |-> "Binop", opcode |-> "MUL", src |-> scale,
                  dest |-> length, succ |-> NEXT] >>
              \o << [op |-> "CopyPM", src |-> length, dest |-> "rdi",
                     succ |-> NEXT] >>
              \o << [op |-> "Call", func |-> "malloc", Nargs |-> 1,
                     succ |-> NEXT] >>), LAMBDA g3 :
         LET ps == g3.last_pseudo
         IN [add_sequential(
               [g3 EXCEPT !.last_pseudo = @ + 1, !.lastoffset = @ + 8],
               [op |-> "CopyMP", src |-> "rax", dest |-> ps, succ |-> NEXT])
               EXCEPT !.result = ps])))

\* visit(source::ListElem)
visitListElem(g, lelm) ==
  Bind(acceptAddress(g, lelm.lst), LAMBDA g1 :
  Bind(visit(g1, lelm.idx), LAMBDA g2 :
  Bind(visitIntConstant(g2, element_scale(lelm.lst)), LAMBDA g3 :
    LET lstaddress == g1.address
        idx == g2.result
        scale == g3.result
        ps == g3.last_pseudo
    IN [add_sequential_all(
          [g3 EXCEPT !.last_pseudo = @ + 1, !.lastoffset = @ + 8],
          << [op |-> "Binop", opcode |-> "MUL", src |-> scale,
              dest |-> idx, succ |-> NEXT],
             [op |-> "Binop", opcode |-> "SUB", src |-> idx,
              dest |-> lstaddress, succ |-> NEXT] >>
          \o << [op |-> "Load", src |-> "", offset |-> 0, dest |-> ps,
                 base |-> lstaddress, mreg |-> "rip", succ |-> NEXT] >>)
          EXCEPT !.result = ps])))

\* visit(source::Address)
visitAddressExpr(g, adr) ==
  Bind(acceptAddress(g, adr.src), LAMBDA g1 : [g1 EXCEPT !.result = g1.address])

visit(g, e) ==
  CASE e.k = "Variable" -> visitVariable(g, e)
    [] e.k = "IntConstant" -> visitIntConstant(g, e)
    [] e.k = "BoolConstant" -> visitBoolConstant(g, e)
    [] e.k = "UnopApp" -> visitUnopApp(g, e)
    [] e.k = "BinopApp" -> visitBinopApp(g, e)
    [] e.k = "Call" -> visitCall(g, e)
    [] e.k = "Address" -> visitAddressExpr(g, e)
    [] e.k = "Alloc" -> visitAlloc(g, e)
    [] e.k = "ListElem" -> visitListElem(g, e)


(* Statement visitors *)

\* an absent optional expression (a null ExprPtr)
NoExpr == [k |-> "None", ty |-> "UNKNOWN"]

RECURSIVE visitStmt(_, _)
RECURSIVE visitBlock(_, _)

\* addMemset(offset, size)
addMemset(g, offset, size) ==
  LET poffset == g.last_pseudo
  IN Bind(add_sequential(
            [g EXCEPT !.last_pseudo = @ + 1, !.lastoffset = @ + 8],
            [op |-> "CopyAP", src |-> "", offset |-> -offset, mreg |-> "rbp",
             base |-> DiscardId, dest |-> poffset, succ |-> NEXT]), LAMBDA g1 :
     Bind(visitIntConstant(g1, [k |-> "IntConstant", value |-> size,
                                ty |-> "INT64"]), LAMBDA g2 :
     Bind(visitIntConstant(g2, [k |-> "IntConstant", value |-> 0,
                                ty |-> "INT64"]), LAMBDA g3 :
       LET psize == g2.result
           pzero == g3.result
       IN add_sequential_all(g3,
            << [op |-> "CopyPM", src |-> poffset, dest |-> "rdi", succ |-> NEXT],
               [op |-> "CopyPM", src |-> pzero, dest |-> "rsi", succ |-> NEXT],
               [op |-> "CopyPM", src |-> psize, dest |-> "rdx", succ |-> NEXT] >>
            \o << [op |-> "Call", func |-> "memset", Nargs |-> 3,
                   succ |-> NEXT] >>))))

\* the LIST case of visit(source::Declare)
visitDeclareList(g, dec) ==
  Bind(get_pseudo(g, dec.var, sizeOfList(dec)), LAMBDA g1 :
  Bind(addMemset(g1, g1.var_offset[dec.var], sizeOfList(dec)), LAMBDA g2 :
  Bind(visit(g2, dec.init), LAMBDA g3 :
    add_sequential(g3, [op |-> "Copy", src |-> g3.result,
                        dest |-> pseudo_of(g1, dec.var), succ |-> NEXT]))))

\* the BOOL, INT64 and POINTER cases of visit(source::Declare)
visitDeclareScalar(g, dec) ==
  Bind(get_pseudo(g, dec.var, 8), LAMBDA g1 :
  Bind(visit(g1, dec.init), LAMBDA g2 :
  Bind(IF dec.ty = "BOOL" THEN intify(g2) ELSE g2, LAMBDA g3 :
    LET pr == pseudo_of(g1, dec.var)
    IN add_sequential(g3, [op |-> "Copy", src |-> g3.result, dest |-> pr,
                           succ |-> NEXT]))))

visitDeclare(g, dec) ==
  IF dec.ty = "LIST" THEN visitDeclareList(g, dec) ELSE visitDeclareScalar(g, dec)

visitAssign(g, a) ==
  Bind(acceptAddress(g, a.left), LAMBDA g1 :
  Bind(visit(g1, a.right), LAMBDA g2 :
  Bind(IF a.right.ty = "BOOL" THEN intify(g2) ELSE g2, LAMBDA g3 :
    LET source_reg == g1.address
    IN add_sequential(g3, [op |-> "Store", src |-> g3.result, dest |-> "",
                           base |-> source_reg, mreg |-> "rbp", offset |-> 0,
                           succ |-> NEXT]))))

visitEval(g, ev) ==
  Bind(visit(g, ev.expr), LAMBDA g1 :
    IF ev.expr.ty = "BOOL" THEN intify(g1) ELSE g1)

visitPrint(g, pr) ==
  Bind(visit(g, pr.arg), LAMBDA g1 :
  Bind(IF pr.arg.ty = "BOOL" THEN intify(g1) ELSE g1, LAMBDA g2 :
    LET func == IF pr.arg.ty = "INT64" THEN "bx_print_int" ELSE "bx_print_bool"
    IN add_sequential(
         add_sequential(g2, [op |-> "CopyPM", src |-> g2.result, dest |-> "rdi",
                             succ |-> NEXT]),
         [op |-> "Call", func |-> func, Nargs |-> 1, succ |-> NEXT])))

visitBlock(g, stmts) ==
  IF stmts = <<>> THEN g
  ELSE visitBlock(visitStmt(g, Head(stmts)), Tail(stmts))

visitIfElse(g, ie) ==
  Bind(visit(g, ie.condition), LAMBDA g1 :
    LET then_label == g1.in_label
        else_label == g1.false_label
        next_label == g1.last_label
    IN Bind(visitStmt([g1 EXCEPT !.last_label = @ + 1, !.in_label = then_label],
                      ie.true_branch), LAMBDA g3 :
       Bind(rtl_add_instr(g3, g3.in_label, [op |-> "Goto", succ |-> next_label]),
            LAMBDA g4 :
       Bind(visitStmt([g4 EXCEPT !.in_label = else_label], ie.false_branch),
            LAMBDA g5 :
         [rtl_add_instr(g5, g5.in_label, [op |-> "Goto", succ |-> next_label])
            EXCEPT !.in_label = next_label]))))

visitWhile(g, wh) ==
  Bind(visit(g, wh.condition), LAMBDA g1 :
  Bind(visitStmt(g1, wh.loop_body), LAMBDA g2 :
    LET while_enter_label == g.in_label
        condition_exit_label == g1.false_label
    IN [rtl_add_instr(g2, g2.in_label,
                      [op |-> "Goto", succ |-> while_enter_label])
          EXCEPT !.in_label = condition_exit_label]))

visitReturn(g, ret) ==
  Bind(IF ret.arg # NoExpr
         THEN Bind(visit(g, ret.arg), LAMBDA ga :
              Bind(IF ret.arg.ty = "BOOL" THEN intify(ga) ELSE ga, LAMBDA gb :
                IF gb.rtl_cbl.output_reg # DiscardId
                  THEN add_sequential(
                         add_sequential(gb,
                           [op |-> "Copy", src |-> gb.result,
                            dest |-> gb.rtl_cbl.output_reg, succ |-> NEXT]),
                         [op |-> "CopyPM", src |-> gb.rtl_cbl.output_reg,
                          dest |-> "rax", succ |-> NEXT])
                  ELSE gb))
         ELSE g, LAMBDA g1 :
    add_sequential(g1, [op |-> "Goto", succ |-> g1.rtl_cbl.leave]))

visitStmt(g, st) ==
  CASE st.k = "Declare" -> visitDeclare(g, st)
    [] st.k = "Assign" -> visitAssign(g, st)
    [] st.k = "Eval" -> visitEval(g, st)
    [] st.k = "Print" -> visitPrint(g, st)
    [] st.k = "Block" -> visitBlock(g, st.body)
    [] st.k = "IfElse" -> visitIfElse(g, st)
    [] st.k = "While" -> visitWhile(g, st)
    [] st.k = "Return" -> visitReturn(g, st)


(* The constructor RtlGen::RtlGen, in three steps: the prologue up to the  *)
(* parameter reads, the body block, the epilogue.                          *)

\* an RtlGen before its constructor body runs; last_pseudo and last_label are
\* the process-wide counters
NewGen(name) ==
  [in_label |-> DiscardId, false_label |-> DiscardId, result |-> DiscardId,
   address |-> DiscardId, rtl_cbl |-> NewCallable(name),
   var_table |-> EmptyMap, var_offset |-> EmptyMap, gvar_table |-> EmptyMap,
   lastoffset |-> 0, last_pseudo |-> 0, last_label |-> 0,
   global_var_init |-> EmptyMap,
   tmpin |-> DiscardId, fresh |-> DiscardId, saved_locs |-> <<>>,
   thrown |-> FALSE, oob |-> DiscardId]

RECURSIVE input_pseudos(_, _)
\* the loop over cbl->args that fills rtl_cbl.input_regs
input_pseudos(g, params) ==
  IF params = <<>> THEN g
  ELSE Bind(get_pseudo(g, Head(params)[1], sizeOf(Head(params)[2])), LAMBDA g1 :
         input_pseudos(
           [g1 EXCEPT !.rtl_cbl.input_regs = Append(@, pseudo_of(g1, Head(params)[1]))],
           Tail(params)))

RECURSIVE save_callee_saved(_, _)
save_callee_saved(g, i) ==
  IF ~(i < NumCalleeSaved) THEN g
  ELSE LET ps == g.last_pseudo
           g1 == [g EXCEPT !.last_pseudo = @ + 1, !.lastoffset = @ + 8,
                           !.saved_locs = Append(@, ps)]
       IN save_callee_saved(
            add_sequential(g1, [op |-> "CopyMP", src |-> callee_saved[i + 1],
                                dest |-> ps, succ |-> NEXT]),
            i + 1)

\* the instructions of "Retrieve the arguments"
retrieve_arguments(input_regs, nArgs, oob) ==
  LET copies(n) == [i \in 1..n |->
                      [op |-> "CopyMP", src |-> regargs[i],
                       dest |-> vec_at(input_regs, i - 1, oob), succ |-> NEXT]]
      loads == [j \in 1..(nArgs + 1 - NumRegArgs) |->
                      [op |-> "LoadParam", source |-> (j + 5) - 5,
                       dest |-> vec_at(input_regs, j + 5, oob), succ |-> NEXT]]
  IN IF ~(nArgs > NumRegArgs) THEN copies(nArgs)
     ELSE copies(NumRegArgs) \o loads

constructor_prologue(g, c) ==
  Bind(input_pseudos(g, c.args), LAMBDA g1 :
  Bind(IF c.return_ty = "UNKNOWN"
         THEN [g1 EXCEPT !.rtl_cbl.output_reg = DiscardId]
         ELSE [g1 EXCEPT !.rtl_cbl.output_reg = g1.last_pseudo,
                         !.last_pseudo = @ + 1, !.lastoffset = @ + 8], LAMBDA g2 :
    LET enter == g2.last_label
        leave == g2.last_label + 1
        fresh == g2.last_label + 2
    IN Bind(save_callee_saved(
              [g2 EXCEPT !.rtl_cbl.enter = enter, !.rtl_cbl.leave = leave,
                         !.last_label = @ + 3, !.lastoffset = @ + 24,
                         !.tmpin = enter, !.fresh = fresh, !.in_label = fresh],
              0), LAMBDA g4 :
         add_sequential_all(g4,
           retrieve_arguments(g4.rtl_cbl.input_regs, Len(c.args), g4.oob)))))

RECURSIVE restore_callee_saved(_, _)
restore_callee_saved(g, i) ==
  IF ~(i < NumCalleeSaved) THEN g
  ELSE restore_callee_saved(
         add_sequential(g, [op |-> "CopyPM", src |-> g.saved_locs[i + 1],
                            dest |-> callee_saved[i + 1], succ |-> NEXT]),
         i + 1)

\* the epilogue without the DelFrame
constructor_epilogue_no_delframe(g, c) ==
  Bind(IF c.return_ty # "UNKNOWN"
         THEN add_sequential(g, [op |-> "CopyPM", src |-> g.rtl_cbl.output_reg,
                                 dest |-> "rax", succ |-> NEXT])
         ELSE g, LAMBDA g1 :
  Bind(restore_callee_saved(
         rtl_add_instr(g1, g1.rtl_cbl.leave, [op |-> "Goto", succ |-> g1.in_label]),
         0), LAMBDA g3 :
  Bind(rtl_add_instr(g3, g3.tmpin,
         [op |-> "NewFrame", succ |-> g3.fresh, size |-> g3.lastoffset]), LAMBDA g4 :
    add_sequential(g4, [op |-> "Return"]))))

constructor_epilogue(g, c) ==
  Bind(IF c.return_ty # "UNKNOWN"
         THEN add_sequential(g, [op |-> "CopyPM", src |-> g.rtl_cbl.output_reg,
                                 dest |-> "rax", succ |-> NEXT])
         ELSE g, LAMBDA g1 :
  Bind(restore_callee_saved(
         rtl_add_instr(g1, g1.rtl_cbl.leave, [op |-> "Goto", succ |-> g1.in_label]),
         0), LAMBDA g3 :
  Bind(rtl_add_instr(g3, g3.tmpin,
         [op |-> "NewFrame", succ |-> g3.fresh, size |-> g3.lastoffset]), LAMBDA g4 :
    add_sequential(add_sequential(g4, [op |-> "DelFrame", succ |-> NEXT]),
                   [op |-> "Return"]))))

----------------------------------------------------------------------------
(* Source programs offered to the lowering.  Every callable here is one    *)
(* the language accepts: variables are parameters or declared before use,  *)
(* operands have the types their operators need, conditions are bool.      *)

IntConstant_make(n) == [k |-> "IntConstant", value |-> n, ty |-> "INT64"]
BoolConstant_make(b) == [k |-> "BoolConstant", value |-> b, ty |-> "BOOL"]
Variable_make(v, ty) == [k |-> "Variable", label |-> v, ty |-> ty]
UnopApp_make(op, e) ==
  [k |-> "UnopApp", op |-> op, arg |-> e,
   ty |-> IF op = "LogNot" THEN "BOOL" ELSE "INT64"]
BinopApp_make(l, op, r) ==
  [k |-> "BinopApp", op |-> op, left_arg |-> l, right_arg |-> r,
   ty |-> IF op \in IntBinops THEN "INT64" ELSE "BOOL"]
Call_make(func, args) ==
  [k |-> "Call", func |-> func, args |-> args, ty |-> source_prog[func].return_ty]

Address_make(src) == [k |-> "Address", src |-> src, ty |-> "POINTER"]
\* a variable of type list[typ; length]
ListVariable_make(v, typ, length) ==
  [k |-> "Variable", label |-> v, ty |-> "LIST", typ |-> typ, length |-> length]
\* var v = init : list[typ; length]
DeclareList_make(v, typ, length, init) ==
  [k |-> "Declare", var |-> v, ty |-> "LIST", typ |-> typ, length |-> length,
   init |-> init]
Alloc_make(size, typ) == [k |-> "Alloc", size |-> size, typ |-> typ, ty |-> "POINTER"]
ListElem_make(lst, idx) == [k |-> "ListElem", lst |-> lst, idx |-> idx, ty |-> lst.typ]
Declare_make(v, ty, init) == [k |-> "Declare", var |-> v, ty |-> ty, init |-> init]
Assign_make(l, r) == [k |-> "Assign", left |-> l, right |-> r]
Eval_make(e) == [k |-> "Eval", expr |-> e]
Print_make(e) == [k |-> "Print", arg |-> e]
Block_make(stmts) == [k |-> "Block", body |-> stmts]
IfElse_make(c, t, e) ==
  [k |-> "IfElse", condition |-> c, true_branch |-> t, false_branch |-> e]
While_make(c, b) == [k |-> "While", condition |-> c, loop_body |-> b]
Return_make(e) == [k |-> "Return", arg |-> e]

Callable_make(name, args, return_ty, body) ==
  [name |-> name, args |-> args, return_ty |-> return_ty, body |-> body]

vb == Variable_make("b", "BOOL")
vx == Variable_make("x", "INT64")

\* the integer arguments 1, 2, ..., n
IntArgs(n) == [i \in 1..n |-> IntConstant_make(i)]
\* the int64 parameters x1, x2, ..., xn
IntParams(n) == [i \in 1..n |-> <<"x" \o ToString(i), "INT64">>]

\* k(f() || g());
StmtOr ==
  Eval_make(Call_make("k", <<BinopApp_make(Call_make("f", <<>>), "BoolOr",
                                           Call_make("g", <<>>))>>))

\* other statements that call f or g
StmtsFG ==
  { Eval_make(Call_make("f", <<>>)),
    IfElse_make(Call_make("f", <<>>), Block_make(<<>>), Block_make(<<>>)),
    While_make(Call_make("g", <<>>), Block_make(<<>>)) }

\* statements of a callable with parameters (b : bool, x : int64)
Stmts ==
  { StmtOr,
    Eval_make(Call_make("h", <<vb>>)),
    Print_make(BinopApp_make(IntConstant_make(1), "Add", vx)),
    Print_make(UnopApp_make("LogNot", vb)),
    Declare_make("c", "BOOL", BinopApp_make(vb, "Eq", BoolConstant_make(TRUE))),
    Assign_make(vx, UnopApp_make("Negate", vx)),
    IfElse_make(BinopApp_make(vb, "BoolAnd",
                              BinopApp_make(IntConstant_make(1), "Lt", vx)),
                Block_make(<<Print_make(IntConstant_make(1))>>),
                Block_make(<<Print_make(IntConstant_make(0))>>)),
    IfElse_make(BinopApp_make(vb, "BoolOr", BoolConstant_make(FALSE)),
                Block_make(<<Return_make(NoExpr)>>), Block_make(<<>>)),
    While_make(BinopApp_make(vx, "Gt", IntConstant_make(0)),
               Block_make(<<Print_make(vx),
                            Assign_make(vx, BinopApp_make(vx, "Subtract",
                                                          IntConstant_make(1)))>>)),
    While_make(BoolConstant_make(TRUE), Block_make(<<>>)),
    Return_make(NoExpr) } \cup StmtsFG

\* the sequences of 1..n elements of S
RECURSIVE SeqsUpTo(_, _)
SeqsUpTo(S, n) ==
  IF n = 0 THEN {<<>>}
  ELSE LET shorter == SeqsUpTo(S, n - 1)
       IN shorter \cup {Append(q, x) : q \in shorter, x \in S}

BodyCallables ==
  {Callable_make("p", <<<<"b", "BOOL">>, <<"x", "INT64">>>>, "UNKNOWN", body) :
     body \in SeqsUpTo(Stmts, MaxStmts) \ {<<>>}}

\* functions: a statement, then the return of a value
FunCallables ==
  {Callable_make("fn", <<<<"b", "BOOL">>, <<"x", "INT64">>>>, r[1], <<st, Return_make(r[2])>>) :
     st \in Stmts,
     r \in {<<"INT64", vx>>, <<"INT64", Call_make("sum", <<>>)>>,
            <<"BOOL", vb>>, <<"BOOL", BinopApp_make(vx, "Leq", IntConstant_make(2))>>}}

\* a callable of n int64 parameters whose body calls one of m
ArityCallables ==
  {Callable_make("p", IntParams(n), "UNKNOWN", <<Eval_make(Call_make(fm[1], IntArgs(fm[2])))>>) :
     n \in 0..MaxArity, fm \in {"put", "sum"} \X (0..MaxArity)}

Callables == BodyCallables \cup FunCallables \cup ArityCallables

\* what a read past the end of a std::vector<Pseudo> may yield: the id of a
\* pseudo in use (that of the first parameter, or that of a saved location of
\* a callable of MaxArity - 1 or MaxArity parameters), or an id no pseudo has
Garbage == {0, MaxArity, DiscardId}

----------------------------------------------------------------------------
(* bx::InstrCompiler and the Asm lines it appends.  A std::string built by *)
(* concatenation is the tuple of its parts, and a placeholder of a         *)
(* repr_template (`d0, `j0) is the pair of its letter and its index.  An   *)
(* int64_t is the tuple of its four 16-bit limbs, most significant first,  *)
(* in two's complement.                                                    *)

INT32_MIN == <<2^16 - 1, 2^16 - 1, 2^15, 0>>
INT32_MAX == <<0, 0, 2^15 - 1, 2^16 - 1>>

\* the limbs of an int64_t with the top one read as signed
signed_limbs(a) == <<IF a[1] >= 2^15 THEN a[1] - 2^16 ELSE a[1], a[2], a[3], a[4]>>

\* a < b on int64_t
int64_less(a, b) ==
  LET sa == signed_limbs(a)
      sb == signed_limbs(b)
  IN \E i \in 1..4 : sa[i] < sb[i] /\ \A j \in 1..(i - 1) : sa[j] = sb[j]

\* the unsigned magnitude of a negative int64_t: complement, plus one
magnitude(a) ==
  LET inv == [i \in 1..4 |-> 2^16 - 1 - a[i]]
      c4 == inv[4] + 1
      c3 == inv[3] + c4 \div 2^16
      c2 == inv[2] + c3 \div 2^16
      c1 == inv[1] + c2 \div 2^16
  IN <<c1 % 2^16, c2 % 2^16, c3 % 2^16, c4 % 2^16>>

\* std::to_string(int64_t): the sign and the digits of the magnitude
to_string(imm) ==
  IF imm[1] >= 2^15 THEN <<"-", magnitude(imm)>> ELSE <<"", imm>>

\* Asm::movq(int64_t imm, Pseudo dest)
Asm_movq(imm, dest) ==
  [use |-> <<>>, def |-> <<dest>>, jump_dests |-> <<>>,
   repr_template |-> <<"\tmovq $", to_string(imm), ", ", <<"d", 0>> >>]

\* Asm::movabsq(int64_t imm, Pseudo dest)
Asm_movabsq(imm, dest) ==
  [use |-> <<>>, def |-> <<dest>>, jump_dests |-> <<>>,
   repr_template |-> <<"\tmovabsq $", to_string(imm), ", ", <<"d", 0>> >>]

\* Asm::jmp(Label destination)
Asm_jmp(destination) ==
  [use |-> <<>>, def |-> <<>>, jump_dests |-> <<destination>>,
   repr_template |-> <<"\tjmp ", <<"j", 0>> >>]

NewCompiler(funcname) == [funcname |-> funcname, rmap |-> EmptyMap, body |-> <<>>]

\* lookup(r): the compiler afterwards
lookup(ic, r) ==
  IF r \notin DOMAIN ic.rmap
    THEN [ic EXCEPT !.rmap = (r :> Cardinality(DOMAIN ic.rmap) + 1) @@ @]
    ELSE ic

label_translate(ic, rtl_lab) == <<".L", ic.funcname, ".", rtl_lab>>

append(ic, line) == [ic EXCEPT !.body = Append(@, line)]

\* visit(rtl::Move) with the two comparisons made inclusive
visitMove_inclusive(ic, m) ==
  LET src == m.source
      ic1 == lookup(ic, m.dest)
      ic2 == IF ~int64_less(INT32_MIN, src) \/ ~int64_less(src, INT32_MAX)
               THEN append(ic1, Asm_movabsq(src, ic1.rmap[m.dest]))
               ELSE append(ic1, Asm_movq(src, ic1.rmap[m.dest]))
  IN append(ic2, Asm_jmp(label_translate(ic2, m.succ)))

\* visit(rtl::Move)
visitMove(ic, m) ==
  LET src == m.source
      ic1 == lookup(ic, m.dest)
      ic2 == IF int64_less(src, INT32_MIN) \/ int64_less(INT32_MAX, src)
               THEN append(ic1, Asm_movabsq(src, ic1.rmap[m.dest]))
               ELSE append(ic1, Asm_movq(src, ic1.rmap[m.dest]))
  IN append(ic2, Asm_jmp(label_translate(ic2, m.succ)))

\* the characters of the literal text a repr_template starts with
chars(text) ==
  CASE text = "\tjmp " -> <<"\t", "j", "m", "p", " ">>
    [] text = "\tje " -> <<"\t", "j", "e", " ">>
    [] text = "\tjne " -> <<"\t", "j", "n", "e", " ">>
    [] text = "\tjl " -> <<"\t", "j", "l", " ">>
    [] text = "\tjle " -> <<"\t", "j", "l", "e", " ">>
    [] text = "\tjg " -> <<"\t", "j", "g", " ">>
    [] text = "\tjge " -> <<"\t", "j", "g", "e", " ">>
    [] text = "\tjmp" -> <<"\t", "j", "m", "p">>
    [] text = "\tcmpq " -> <<"\t", "c", "m", "p", "q", " ">>
    [] text = "cmpq $" -> <<"c", "m", "p", "q", " ", "$">>
    [] text = "\tmovq " -> <<"\t", "m", "o", "v", "q", " ">>
    [] text = "\tmovq $" -> <<"\t", "m", "o", "v", "q", " ", "$">>
    [] text = "\tmovabsq $" -> <<"\t", "m", "o", "v", "a", "b", "s", "q", " ", "$">>
    [] text = ".L" -> <<".", "L">>

\* std::string::rfind(prefix, 0) == 0 on a repr_template
starts_with(repr_template, prefix) ==
  LET t == chars(repr_template[1])
      q == chars(prefix)
  IN Len(q) <= Len(t) /\ SubSeq(t, 1, Len(q)) = q

\* Asm::set_label(label)
Asm_set_label(label) ==
  [use |-> <<>>, def |-> <<>>, jump_dests |-> <<>>,
   repr_template |-> label \o <<":">>]

\* Asm::movq(Pseudo src, Pseudo dest)
Asm_movq_reg(src, dest) ==
  [use |-> <<src>>, def |-> <<dest>>, jump_dests |-> <<>>,
   repr_template |-> <<"\tmovq ", <<"s", 0>>, ", ", <<"d", 0>> >>]

\* Asm::cmpq(Pseudo arg1, Pseudo arg2)
Asm_cmpq(arg1, arg2) ==
  [use |-> <<arg1, arg2>>, def |-> <<>>, jump_dests |-> <<>>,
   repr_template |-> <<"\tcmpq ", <<"s", 0>>, ", ", <<"s", 1>> >>]

\* Asm::cmpq(int32_t imm, Pseudo arg)
Asm_cmpq_imm(imm, arg) ==
  [use |-> <<arg>>, def |-> <<>>, jump_dests |-> <<>>,
   repr_template |-> <<"cmpq $", to_string(imm), ", ", <<"s", 0>> >>]

\* Asm::directive(directive)
Asm_directive(directive) ==
  [use |-> <<>>, def |-> <<>>, jump_dests |-> <<>>,
   repr_template |-> <<"\t", directive>>]

\* ARITH_BINOP(mnemonic), the form with an immediate
Asm_arith_imm(mnemonic, imm, dest) ==
  [use |-> <<>>, def |-> <<dest>>, jump_dests |-> <<>>,
   repr_template |-> <<"\t" \o mnemonic \o "q $", to_string(imm), ", ", <<"d", 0>> >>]

\* ARITH_BINOP(mnemonic), the form with two pseudos
Asm_arith(mnemonic, src, dest) ==
  [use |-> <<src>>, def |-> <<dest>>, jump_dests |-> <<>>,
   repr_template |-> <<"\t" \o mnemonic \o "q ", <<"s", 0>>, ", ", <<"d", 0>> >>]

\* Asm::cqo()
Asm_cqo ==
  [use |-> <<"%rax">>, def |-> <<"%rax", "%rdx">>, jump_dests |-> <<>>,
   repr_template |-> <<"\tcqo">>]

\* Asm::imulq(factor)
Asm_imulq(factor) ==
  [use |-> <<factor, "%rax">>, def |-> <<"%rax", "%rdx">>, jump_dests |-> <<>>,
   repr_template |-> <<"imulq ", <<"s", 0>> >>]

\* Asm::idivq(divisor)
Asm_idivq(divisor) ==
  [use |-> <<divisor, "%rax", "%rdx">>, def |-> <<"%rax", "%rdx">>,
   jump_dests |-> <<>>, repr_template |-> <<"idivq ", <<"s", 0>> >>]

\* ARITH_UNOP(mnemonic): Asm::negq, notq
Asm_unop(mnemonic, arg) ==
  [use |-> <<arg>>, def |-> <<arg>>, jump_dests |-> <<>>,
   repr_template |-> <<"\t" \o mnemonic \o "q ", <<"s", 0>> >>]

\* Asm::pushq(arg)
Asm_pushq(arg) ==
  [use |-> <<arg>>, def |-> <<>>, jump_dests |-> <<>>,
   repr_template |-> <<"\tpushq ", <<"s", 0>> >>]

\* Asm::popq(arg)
Asm_popq(arg) ==
  [use |-> <<>>, def |-> <<arg>>, jump_dests |-> <<>>,
   repr_template |-> <<"\tpopq ", <<"d", 0>> >>]

\* SHIFTOP(mnemonic): Asm::sarq, shrq, salq
Asm_shift(mnemonic, dest) ==
  [use |-> <<"%rcx">>, def |-> <<dest>>, jump_dests |-> <<>>,
   repr_template |-> <<"\t" \o mnemonic \o "q %cl, ", <<"d", 0>> >>]

\* Asm::call(func)
Asm_call(func) ==
  [use |-> <<>>, def |-> <<"%rax">>, jump_dests |-> <<>>,
   repr_template |-> <<"\tcall ", func>>]

\* Asm::ret()
Asm_ret ==
  [use |-> <<>>, def |-> <<>>, jump_dests |-> <<>>, repr_template |-> <<"\tret">>]

\* a branch whose template names a source pseudo it does not have
Asm_branch_s0(mnemonic, destination) ==
  [use |-> <<>>, def |-> <<>>, jump_dests |-> <<destination>>,
   repr_template |-> <<"\t" \o mnemonic \o " ", <<"s", 0>> >>]

\* BRANCH_OP(mnemonic): Asm::jmp, je, jne, jl, jle, jg, jge
Asm_branch(mnemonic, destination) ==
  [use |-> <<>>, def |-> <<>>, jump_dests |-> <<destination>>,
   repr_template |-> <<"\t" \o mnemonic \o " ", <<"j", 0>> >>]

\* append_label that pops any trailing jmp, whatever its destination
append_label_any_jmp(ic, rtl_lab) ==
  LET label == label_translate(ic, rtl_lab)
      n == Len(ic.body)
      popped == IF n > 0 /\ starts_with(ic.body[n].repr_template, "\tjmp")
                       /\ Len(ic.body[n].jump_dests) > 0
                  THEN [ic EXCEPT !.body = SubSeq(@, 1, n - 1)]
                  ELSE ic
  IN append(popped, Asm_set_label(label))

\* append_label(rtl_lab)
append_label(ic, rtl_lab) ==
  LET label == label_translate(ic, rtl_lab)
      n == Len(ic.body)
      popped == IF n > 0 /\ starts_with(ic.body[n].repr_template, "\tjmp")
                       /\ Len(ic.body[n].jump_dests) > 0
                       /\ ic.body[n].jump_dests[1] = label
                  THEN [ic EXCEPT !.body = SubSeq(@, 1, n - 1)]
                  ELSE ic
  IN append(popped, Asm_set_label(label))

\* visit(rtl::Goto)
visitGoto(ic, go) == append(ic, Asm_jmp(label_translate(ic, go.succ)))

\* visit(rtl::Ubranch)
visitUbranch(ic, ub) ==
  Bind(lookup(ic, ub.arg), LAMBDA ic1 :
    append(
      append(
        append(ic1, Asm_cmpq_imm(<<0, 0, 0, 0>>, ic1.rmap[ub.arg])),
        Asm_branch(IF ub.opcode = "JZ" THEN "je" ELSE "jne",
                   label_translate(ic1, ub.succ))),
      Asm_jmp(label_translate(ic1, ub.fail))))

\* the jump to fail with JLE and JNG answered by jge
bbranch_fail_jump_jge(opcode) ==
  CASE opcode = "JE" -> "jne"
    [] opcode = "JNE" -> "je"
    [] opcode \in {"JL", "JNGE"} -> "jge"
    [] opcode \in {"JLE", "JNG"} -> "jge"
    [] opcode \in {"JG", "JNLE"} -> "jle"
    [] opcode \in {"JGE", "JNL"} -> "jl"

\* the jump to fail that visit(rtl::Bbranch) emits for an opcode
bbranch_fail_jump(opcode) ==
  CASE opcode = "JE" -> "jne"
    [] opcode = "JNE" -> "je"
    [] opcode \in {"JL", "JNGE"} -> "jge"
    [] opcode \in {"JLE", "JNG"} -> "jg"
    [] opcode \in {"JG", "JNLE"} -> "jle"
    [] opcode \in {"JGE", "JNL"} -> "jl"

\* visit(rtl::Bbranch)
visitBbranch(ic, bb) ==
  Bind(lookup(lookup(ic, bb.arg1), bb.arg2), LAMBDA ic1 :
    append(
      append(
        append(
          append(
            append(ic1, Asm_movq_reg(ic1.rmap[bb.arg1], "%rcx")),
            Asm_movq_reg(ic1.rmap[bb.arg2], "%rax")),
          Asm_cmpq("%rax", "%rcx")),
        Asm_branch(bbranch_fail_jump(bb.opcode), label_translate(ic1, bb.fail))),
      Asm_jmp(label_translate(ic1, bb.succ))))

\* exit_label of the InstrCompiler
exit_label(ic) == <<".L", ic.funcname, ".exit">>

\* the frame finalize reserves: rmap.size() * 8 bytes, as an int64_t
frame_size(ic) == <<0, 0, 0, Cardinality(DOMAIN ic.rmap) * 8>>

\* finalize() with a frame one slot short
finalize_short(ic) ==
  LET framed == Cardinality(DOMAIN ic.rmap) > 0
  IN << Asm_directive(".globl " \o ic.funcname), Asm_directive(".section .text"),
        Asm_set_label(<<ic.funcname>>) >>
     \o (IF framed
           THEN << Asm_pushq("%rbp"), Asm_movq_reg("%rsp", "%rbp"),
                   Asm_arith_imm("sub", <<0, 0, 0, (Cardinality(DOMAIN ic.rmap) - 1) * 8>>,
                                 "%rsp") >>
           ELSE <<>>)
     \o ic.body
     \o << Asm_set_label(exit_label(ic)) >>
     \o (IF framed THEN << Asm_movq_reg("%rbp", "%rsp"), Asm_popq("%rbp") >> ELSE <<>>)
     \o << Asm_ret >>

\* finalize(): the AsmProgram returned
finalize(ic) ==
  LET framed == Cardinality(DOMAIN ic.rmap) > 0
  IN << Asm_directive(".globl " \o ic.funcname), Asm_directive(".section .text"),
        Asm_set_label(<<ic.funcname>>) >>
     \o (IF framed
           THEN << Asm_pushq("%rbp"), Asm_movq_reg("%rsp", "%rbp"),
                   Asm_arith_imm("sub", frame_size(ic), "%rsp") >>
           ELSE <<>>)
     \o ic.body
     \o << Asm_set_label(exit_label(ic)) >>
     \o (IF framed THEN << Asm_movq_reg("%rbp", "%rsp"), Asm_popq("%rbp") >> ELSE <<>>)
     \o << Asm_ret >>

\* InstrCompiler::visit(rtl::Return)
InstrCompiler_visitReturn(ic, ret) ==
  Bind(lookup(ic, ret.arg), LAMBDA ic1 :
    append(append(ic1, Asm_movq_reg(ic1.rmap[ret.arg], "%rax")),
           Asm_jmp(exit_label(ic1))))

\* Instr::accept(InstrCompiler)
accept(ic, instr) ==
  CASE instr.op = "Move" -> visitMove(ic, instr)
    [] instr.op = "Goto" -> visitGoto(ic, instr)
    [] instr.op = "Ubranch" -> visitUbranch(ic, instr)
    [] instr.op = "Bbranch" -> visitBbranch(ic, instr)
    [] instr.op = "Return" -> InstrCompiler_visitReturn(ic, instr)

----------------------------------------------------------------------------
(* Spec: lowering one callable *)

IdleCallable == NewCallable("")
IdleCall == [lab |-> DiscardId, thrown |-> FALSE, what |-> "", n |-> 0]
IdleExpr == NoExpr
IdleEnv == EmptyMap
IdleMach == [at |-> DiscardId, regs |-> EmptyMap, mregs |-> EmptyMap, steps |-> 0]
IdleMove == [op |-> "Return"]
IdleCompiler == NewCompiler("")
\* the namespace-scope variables of ast_rtl.cpp when the process starts
NewProcess ==
  [last_pseudo |-> 0, last_label |-> 0, global_var_init |-> EmptyMap,
   global_var_offset |-> EmptyMap, globaloffset |-> 0]
IdleProgram == [global_vars |-> <<>>, callables |-> <<>>]
IdleFactory == [f |-> "", mnemonic |-> "", a |-> 0, b |-> 0, imm |-> <<0, 0, 0, 0>>]
IdleUnits ==
  /\ src_prog = IdleProgram
  /\ process = NewProcess
  /\ outputs = <<>>
  /\ factory = IdleFactory

Init ==
  /\ src_cbl \in Callables
  /\ gen = NewGen(src_cbl.name)
  /\ pc = "start"
  /\ next_stmt = 1
  /\ cbl = IdleCallable
  /\ last_call = IdleCall
  /\ expr = IdleExpr
  /\ env = IdleEnv
  /\ mach = IdleMach
  /\ mv = IdleMove
  /\ icomp = IdleCompiler
  /\ IdleUnits

others == <<cbl, last_call, expr, env, mach, mv, icomp, units>>

\* lines 156-232 of the constructor
Prologue ==
  /\ pc = "start"
  /\ \E oob \in Garbage :
       gen' = [constructor_prologue([gen EXCEPT !.oob = oob], src_cbl)
                 EXCEPT !.oob = DiscardId]
  /\ pc' = "body"
  /\ UNCHANGED <<src_cbl, next_stmt, others>>

\* one iteration of visit(Block) on the callable's body (cbl->body->accept)
VisitStmt ==
  /\ pc = "body"
  /\ next_stmt <= Len(src_cbl.body)
  /\ \E oob \in Garbage :
       gen' = [visitStmt([gen EXCEPT !.oob = oob], src_cbl.body[next_stmt])
                 EXCEPT !.oob = DiscardId]
  /\ next_stmt' = next_stmt + 1
  /\ pc' = IF gen'.thrown THEN "error" ELSE "body"
  /\ UNCHANGED <<src_cbl, others>>

\* lines 236-263 of the constructor, then deliver()
Epilogue ==
  /\ pc = "body"
  /\ next_stmt > Len(src_cbl.body)
  /\ gen' = constructor_epilogue(gen, src_cbl)
  /\ pc' = IF gen'.thrown THEN "error" ELSE "done"
  /\ UNCHANGED <<src_cbl, next_stmt, others>>

Next == Prologue \/ VisitStmt \/ Epilogue

Spec == Init /\ [][Next]_vars

\* the rtl::Callable that deliver() hands out
Delivered == pc = "done"
body == gen.rtl_cbl.body
schedule == gen.rtl_cbl.schedule


----------------------------------------------------------------------------
(* Properties of the delivered Callable *)

enter == gen.rtl_cbl.enter
leave == gen.rtl_cbl.leave
Labels == DOMAIN body

RECURSIVE ReachFrom(_, _, _)
\* the labels control can reach from the labels `seen`, never stepping onto a
\* label of `cut` and never along an edge of `cutEdges`
ReachFrom(seen, cut, cutEdges) ==
  LET more == {m \in UNION {Succs(body[l]) : l \in seen \cap Labels} :
                 /\ m \notin cut
                 /\ \E l \in seen \cap Labels :
                      m \in Succs(body[l]) /\ <<l, m>> \notin cutEdges}
  IN IF more \subseteq seen THEN seen ELSE ReachFrom(seen \cup more, cut, cutEdges)

LabelsOf(op) == {l \in Labels : body[l].op = op}
CallsTo(func) == {l \in LabelsOf("Call") : body[l].func = func}

\* position of label l in the schedule
PosOf(l) == CHOOSE i \in 1..Len(schedule) : schedule[i] = l
\* the instruction scheduled at position i
At(i) == body[schedule[i]]

RECURSIVE Walk(_, _)
\* the instructions met from label l along single successors, n of them at most
Walk(l, n) ==
  IF n = 0 \/ l \notin Labels THEN <<>>
  ELSE IF Cardinality(Succs(body[l])) # 1 THEN <<body[l]>>
  ELSE <<body[l]>> \o Walk(body[l].succ, n - 1)

\* C1: in every delivered Callable every successor label of every instruction
\* is a key of body (CFG closedness)
C1_Closed ==
  Delivered => \A l \in Labels : Succs(body[l]) \subseteq Labels

\* C4: in every delivered Callable enter is the first label installed, that
\* is, the first label of the schedule
C4_EnterFirst ==
  Delivered => schedule[1] = enter

\* C5: in every delivered Callable enter and leave are keys of body, the chain
\* from leave is Goto, the six callee-saved restores, DelFrame, Return, and
\* Return is the one instruction without a successor
C5_LeaveReachesReturn ==
  Delivered =>
    LET chain == Walk(leave, NumCalleeSaved + 3)
    IN /\ enter \in Labels
       /\ leave \in Labels
       /\ Len(chain) = NumCalleeSaved + 3
       /\ chain[1].op = "Goto"
       /\ \A i \in 1..NumCalleeSaved :
            /\ chain[1 + i].op = "CopyPM"
            /\ chain[1 + i].dest = callee_saved[i]
            /\ chain[1 + i].src = gen.saved_locs[i]
       /\ chain[NumCalleeSaved + 2].op = "DelFrame"
       /\ chain[NumCalleeSaved + 3].op = "Return"
       /\ Cardinality(LabelsOf("Return")) = 1
       /\ \A l \in Labels : (Succs(body[l]) = {}) <=> (body[l].op = "Return")

\* a callable whose body holds a return statement has been delivered: control
\* enters the chain at leave from the body
C5_Witness ==
  /\ Delivered
  /\ \E l \in Labels \ {leave} : body[l].op = "Goto" /\ body[l].succ = leave
  /\ src_cbl.return_ty # "UNKNOWN"


\* the statement k(f() || g()) is in the lowered body, and no other statement
\* of the body calls f or g
OrLowered ==
  /\ \E i \in 1..Len(src_cbl.body) : src_cbl.body[i] = StmtOr
  /\ \A i \in 1..Len(src_cbl.body) : src_cbl.body[i] \notin StmtsFG

\* C6: in the lowering of f() || g(), on every path from enter to the Call of
\* g the Call of f has executed and a branch has found its result false
C6_ShortCircuit ==
  (Delivered /\ OrLowered) =>
    LET fres == {body[body[l].succ].dest : l \in CallsTo("f")}
        tests == {l \in LabelsOf("Ubranch") : body[l].arg \in fres}
        falseEdges == {<<l, body[l].fail>> : l \in tests}
    IN \A lg \in CallsTo("g") :
         /\ lg \notin ReachFrom({enter}, CallsTo("f"), {})
         /\ lg \notin ReachFrom({enter}, {}, falseEdges)

\* C8: a callable of n parameters reads parameter i <= 6 by CopyMP from the
\* i-th argument register into input pseudo i, emits exactly max(n - 6, 0)
\* LoadParam instructions, LoadParam k reading parameter 6 + k into its input
\* pseudo, and reads no input pseudo beyond the n-th
C8_Params ==
  pc \in {"body", "done"} =>
    LET n == Len(src_cbl.args)
        input_regs == gen.rtl_cbl.input_regs
        loads == LabelsOf("LoadParam")
    IN /\ Len(input_regs) = n
       /\ \A i \in 1..Min(n, NumRegArgs) :
            /\ At(NumCalleeSaved + i).op = "CopyMP"
            /\ At(NumCalleeSaved + i).src = regargs[i]
            /\ At(NumCalleeSaved + i).dest = input_regs[i]
       /\ Cardinality(loads) = Max(n - NumRegArgs, 0)
       /\ \A j \in 1..(n - NumRegArgs) :
            \E l \in loads : /\ body[l].source = j
                             /\ body[l].dest = input_regs[NumRegArgs + j]

RECURSIVE PlacedBefore(_)
\* the CopyPM and Push instructions scheduled in a row up to position i
PlacedBefore(i) ==
  IF i >= 1 /\ At(i).op \in {"CopyPM", "Push"}
    THEN Append(PlacedBefore(i - 1), At(i)) ELSE <<>>

\* the pseudo holding the value of the argument IntConstant i
ArgPseudo(i) == body[CHOOSE l \in LabelsOf("Move") : body[l].source = i].dest

\* a call statement of m integer arguments 1..m is the whole body and has
\* been lowered
ArityCallLowered ==
  /\ src_cbl \in ArityCallables
  /\ pc \in {"body", "done"}
  /\ next_stmt = 2

\* C9: for a call of m arguments the lowerer emits CopyPM of argument i into
\* the i-th argument register for i = 1..min(m, 6), then exactly max(m - 6, 0)
\* Push instructions of arguments m, m-1, ..., 7, then Call func, m
C9_CallPlacement ==
  ArityCallLowered =>
    LET m == Len(src_cbl.body[1].expr.args)
        lc == CHOOSE l \in LabelsOf("Call") : TRUE
        placed == PlacedBefore(PosOf(lc) - 1)
        nreg == Min(m, NumRegArgs)
    IN /\ body[lc].Nargs = m
       /\ Len(placed) = nreg + Max(m - NumRegArgs, 0)
       /\ \A i \in 1..nreg :
            /\ placed[i].op = "CopyPM"
            /\ placed[i].src = ArgPseudo(i)
            /\ placed[i].dest = regargs[i]
       /\ \A j \in 1..(m - NumRegArgs) :
            /\ placed[nreg + j].op = "Push"
            /\ placed[nreg + j].dest = ArgPseudo(m - (j - 1))


----------------------------------------------------------------------------
(* SpecAdd: a free-standing rtl::Callable driven through add_instr *)

\* instructions handed to add_instr
AddInstrs ==
  {[op |-> "Goto", succ |-> l] : l \in 0..MaxLabel} \cup {[op |-> "Return"]}

InitAdd ==
  /\ cbl = NewCallable("p")
  /\ last_call = IdleCall
  /\ pc = "add"
  /\ src_cbl = IdleCallable
  /\ gen = NewGen("")
  /\ next_stmt = 1
  /\ expr = IdleExpr
  /\ env = IdleEnv
  /\ mach = IdleMach
  /\ mv = IdleMove
  /\ icomp = IdleCompiler
  /\ IdleUnits

\* one call cbl.add_instr(lab, instr); a throw is caught by the caller
AddInstr ==
  /\ pc = "add"
  /\ last_call.n < MaxAdds
  /\ \E lab \in 0..MaxLabel, instr \in AddInstrs :
       LET r == add_instr(cbl, lab, instr)
       IN /\ cbl' = r.cbl
          /\ last_call' = [lab |-> lab, thrown |-> r.thrown, what |-> r.what,
                           n |-> last_call.n + 1]
  /\ UNCHANGED <<src_cbl, gen, pc, next_stmt, expr, env, mach, mv, icomp, units>>

NextAdd == AddInstr

SpecAdd == InitAdd /\ [][NextAdd]_vars

\* C2: after any sequence of add_instr calls, accepted or rejected, schedule
\* holds each label at most once and its labels are exactly the keys of body
C2_SchedulePermutation ==
  /\ \A i, j \in 1..Len(cbl.schedule) :
       cbl.schedule[i] = cbl.schedule[j] => i = j
  /\ {cbl.schedule[i] : i \in 1..Len(cbl.schedule)} = DOMAIN cbl.body

C2_Witness ==
  /\ last_call.thrown
  /\ Len(cbl.schedule) >= 2
  /\ cbl.schedule[1] > cbl.schedule[2]

\* C3: add_instr(lab, instr) with lab already a key of body fails with
\* 'repeated in-label' and leaves body and schedule as they were
C3_DuplicateRejected ==
  [][(last_call'.n = last_call.n + 1 /\ last_call'.lab \in DOMAIN cbl.body)
       => /\ last_call'.thrown
          /\ last_call'.what = "repeated in-label"
          /\ cbl'.body = cbl.body
          /\ cbl'.schedule = cbl.schedule]_vars

C3_Witness ==
  /\ last_call.thrown
  /\ last_call.lab \in DOMAIN cbl.body
  /\ cbl.body[last_call.lab].op = "Return"


----------------------------------------------------------------------------
(* SpecExpr: one bool expression lowered inside proc p(b, c : bool,        *)
(* x : int64), then the instructions it installed executed from the label  *)
(* the visit started at                                                    *)

ExprContext ==
  Callable_make("p", <<<<"b", "BOOL">>, <<"c", "BOOL">>, <<"x", "INT64">>>>,
                "UNKNOWN", <<>>)

vc == Variable_make("c", "BOOL")

BoolAtoms ==
  { BoolConstant_make(TRUE), BoolConstant_make(FALSE), vb, vc,
    BinopApp_make(vx, "Lt", IntConstant_make(1)),
    BinopApp_make(IntConstant_make(1), "Leq", vx),
    BinopApp_make(vx, "Eq", IntConstant_make(1)),
    BinopApp_make(vb, "Neq", vc),
    Call_make("f", <<>>) }

BoolExprs ==
  BoolAtoms
    \cup {UnopApp_make("LogNot", a) : a \in BoolAtoms}
    \cup {BinopApp_make(a[1], op, a[2]) :
            a \in BoolAtoms \X BoolAtoms, op \in {"BoolAnd", "BoolOr"}}

\* run-time values of the parameters and of the result of f()
Envs == [b : BOOLEAN, c : BOOLEAN, f : BOOLEAN, x : 0..1]

\* a bool as the 64-bit integer that holds it
ToInt(v) == IF v THEN 1 ELSE 0

RECURSIVE eval(_, _)
\* the value of an expression of the language
eval(e, v) ==
  CASE e.k \in {"BoolConstant", "IntConstant"} -> e.value
    [] e.k = "Variable" -> v[e.label]
    [] e.k = "Call" -> v[e.func]
    [] e.k = "UnopApp" -> ~eval(e.arg, v)
    [] e.k = "BinopApp" ->
         LET l == eval(e.left_arg, v)
         IN CASE e.op = "BoolAnd" -> IF l THEN eval(e.right_arg, v) ELSE FALSE
              [] e.op = "BoolOr" -> IF l THEN TRUE ELSE eval(e.right_arg, v)
              [] e.op = "Lt" -> l < eval(e.right_arg, v)
              [] e.op = "Leq" -> l <= eval(e.right_arg, v)
              [] e.op = "Gt" -> l > eval(e.right_arg, v)
              [] e.op = "Geq" -> l >= eval(e.right_arg, v)
              [] e.op = "Eq" -> l = eval(e.right_arg, v)
              [] e.op = "Neq" -> l # eval(e.right_arg, v)

\* the condition under which a Bbranch goes to succ
bbranch_taken(opcode, a1, a2) ==
  CASE opcode = "JE" -> a1 = a2
    [] opcode = "JNE" -> a1 # a2
    [] opcode = "JL" -> a1 < a2
    [] opcode = "JLE" -> a1 <= a2
    [] opcode = "JG" -> a1 > a2
    [] opcode = "JGE" -> a1 >= a2

\* one RTL instruction executed by the machine m; v holds what the called
\* functions return, junk is what a never-written register reads as
exec(m, i, v, junk) ==
  LET rd(p) == IF p \in DOMAIN m.regs THEN m.regs[p] ELSE junk
      mrd(r) == IF r \in DOMAIN m.mregs THEN m.mregs[r] ELSE junk
      jump(l) == [m EXCEPT !.at = l, !.steps = @ + 1]
      set(p, x, l) == [m EXCEPT !.regs = (p :> x) @@ @, !.at = l, !.steps = @ + 1]
  IN CASE i.op = "Move" -> set(i.dest, i.source, i.succ)
       [] i.op = "Copy" -> set(i.dest, rd(i.src), i.succ)
       [] i.op = "CopyMP" -> set(i.dest, mrd(i.src), i.succ)
       [] i.op = "Call" ->
            [m EXCEPT !.mregs = ("rax" :> ToInt(v[i.func])) @@ @,
                      !.at = i.succ, !.steps = @ + 1]
       [] i.op = "Goto" -> jump(i.succ)
       [] i.op = "Ubranch" ->
            jump(IF (rd(i.arg) # 0) = (i.opcode = "JNZ") THEN i.succ ELSE i.fail)
       [] i.op = "Bbranch" ->
            jump(IF bbranch_taken(i.opcode, rd(i.arg1), rd(i.arg2))
                   THEN i.succ ELSE i.fail)

InitExpr ==
  /\ expr \in BoolExprs
  /\ env \in Envs
  /\ src_cbl = ExprContext
  /\ gen = constructor_prologue(NewGen("p"), ExprContext)
  /\ pc = "lower"
  /\ next_stmt = 1
  /\ cbl = IdleCallable
  /\ last_call = IdleCall
  /\ mach = IdleMach
  /\ mv = IdleMove
  /\ icomp = IdleCompiler
  /\ IdleUnits

\* expr->accept(*this) at the label in_label, then the machine is put at
\* that label with the parameters in their pseudos
LowerExpr ==
  /\ pc = "lower"
  /\ gen' = visit(gen, expr)
  /\ mach' = [at |-> gen.in_label,
              regs |-> (gen.var_table["b"] :> ToInt(env.b))
                         @@ (gen.var_table["c"] :> ToInt(env.c))
                         @@ (gen.var_table["x"] :> env.x),
              mregs |-> EmptyMap, steps |-> 0]
  /\ pc' = IF gen'.thrown THEN "error" ELSE "run"
  /\ UNCHANGED <<src_cbl, next_stmt, cbl, last_call, expr, env, mv, icomp, units>>

\* control has arrived at one of the two labels the visit left, or at a label
\* that holds no instruction
Halted ==
  /\ pc = "run"
  /\ \/ mach.at \in {gen.in_label, gen.false_label}
     \/ mach.at \notin DOMAIN body

ExecStep ==
  /\ pc = "run"
  /\ ~Halted
  /\ mach.steps < MaxSteps
  /\ \E junk \in 0..1 : mach' = exec(mach, body[mach.at], env, junk)
  /\ UNCHANGED <<src_cbl, gen, pc, next_stmt, cbl, last_call, expr, env, mv, icomp, units>>

NextExpr == LowerExpr \/ ExecStep

SpecExpr == InitExpr /\ [][NextExpr]_vars

\* C7: after the visit of a bool expression e started at label L, execution
\* from L arrives at in_label exactly when e is true and at false_label
\* exactly when e is false
C7_BoolLowering ==
  Halted => /\ (mach.at = gen.in_label) <=> eval(expr, env)
            /\ (mach.at = gen.false_label) <=> ~eval(expr, env)


----------------------------------------------------------------------------
(* SpecAsm: InstrCompiler::visit on one rtl::Move *)

\* limbs at the edges of the 16-bit range
EdgeLimbs == {0, 1, 2^15 - 1, 2^15, 2^16 - 2, 2^16 - 1}

\* immediates at and around INT32_MIN, INT32_MAX, INT64_MIN, INT64_MAX, 0
Imms ==
  {0, 2^15 - 1, 2^15, 2^16 - 1} \X {0, 2^16 - 1} \X EdgeLimbs \X EdgeLimbs

Moves == [op : {"Move"}, source : Imms, dest : 0..1, succ : 0..1]

InitAsm ==
  /\ mv \in Moves
  /\ icomp = NewCompiler("p")
  /\ IdleUnits
  /\ pc = "asm"
  /\ src_cbl = IdleCallable
  /\ gen = NewGen("")
  /\ next_stmt = 1
  /\ cbl = IdleCallable
  /\ last_call = IdleCall
  /\ expr = IdleExpr
  /\ env = IdleEnv
  /\ mach = IdleMach

\* mv.accept(icomp)
VisitMove ==
  /\ pc = "asm"
  /\ icomp' = visitMove(icomp, mv)
  /\ pc' = "emitted"
  /\ UNCHANGED <<src_cbl, gen, next_stmt, cbl, last_call, expr, env, mach, mv, units>>

NextAsm == VisitMove

SpecAsm == InitAsm /\ [][NextAsm]_vars

\* a 64-bit immediate whose upper 33 bits are all equal: it is its own low
\* 32 bits sign-extended
FitsInt32(imm) ==
  \/ imm[1] = 0 /\ imm[2] = 0 /\ imm[3] < 2^15
  \/ imm[1] = 2^16 - 1 /\ imm[2] = 2^16 - 1 /\ imm[3] >= 2^15

\* C10: the translation of Move imm, dst is movabsq exactly when imm is
\* outside the signed 32-bit range, movq otherwise, and then jmp to the
\* successor
C10_MoveImmediate ==
  pc = "emitted" =>
    /\ Len(icomp.body) = 2
    /\ icomp.body[1].repr_template[1] =
         IF FitsInt32(mv.source) THEN "\tmovq $" ELSE "\tmovabsq $"
    /\ icomp.body[1].repr_template[2] = to_string(mv.source)
    /\ icomp.body[1].def = <<icomp.rmap[mv.dest]>>
    /\ icomp.body[2].repr_template = <<"\tjmp ", <<"j", 0>> >>
    /\ icomp.body[2].jump_dests = <<<<".L", "p", ".", mv.succ>>>>

C10_Witness ==
  /\ pc = "emitted"
  /\ mv.source = <<2^15, 0, 0, 0>>
  /\ icomp.body[1].repr_template[1] = "\tmovabsq $"
  /\ icomp.body[1].repr_template[2] = <<"-", <<2^15, 0, 0, 0>>>>


----------------------------------------------------------------------------
(* SpecLabels: rtl_to_asm on one rtl Callable, label by label in schedule  *)
(* order                                                                   *)

\* instructions at a label: the last jump each translation ends with goes to
\* a label t of the program, the other successor is label 0
InstrsTo(t) ==
  { [op |-> "Goto", succ |-> t],
    [op |-> "Ubranch", opcode |-> "JNZ", arg |-> 0, succ |-> 0, fail |-> t],
    [op |-> "Bbranch", opcode |-> "JL", arg1 |-> 0, arg2 |-> 1, succ |-> t,
     fail |-> 0] }

\* rtl programs with the labels 0..MaxLabel, scheduled in that order
Programs ==
  { [NewCallable("p") EXCEPT !.body = b, !.schedule = [i \in 1..(MaxLabel + 1) |-> i - 1]] :
      b \in [0..MaxLabel -> UNION {InstrsTo(t) : t \in 0..MaxLabel}] }

InitLabels ==
  /\ cbl \in Programs
  /\ icomp = NewCompiler("p")
  /\ IdleUnits
  /\ pc = "label"
  /\ next_stmt = 1
  /\ last_call = IdleCall
  /\ src_cbl = IdleCallable
  /\ gen = NewGen("")
  /\ expr = IdleExpr
  /\ env = IdleEnv
  /\ mach = IdleMach
  /\ mv = IdleMove

\* icomp.append_label(l) for the next label l of the schedule
AppendLabel ==
  /\ pc = "label"
  /\ next_stmt <= Len(cbl.schedule)
  /\ icomp' = append_label(icomp, cbl.schedule[next_stmt])
  /\ last_call' = [lab |-> cbl.schedule[next_stmt], thrown |-> FALSE,
                   what |-> IF Len(icomp'.body) = Len(icomp.body)
                              THEN "pop_back" ELSE "",
                   n |-> last_call.n + 1]
  /\ pc' = "instr"
  /\ UNCHANGED <<src_cbl, gen, next_stmt, cbl, expr, env, mach, mv, units>>

\* prog.body.find(l)->second->accept(icomp)
VisitInstr ==
  /\ pc = "instr"
  /\ icomp' = accept(icomp, cbl.body[cbl.schedule[next_stmt]])
  /\ next_stmt' = next_stmt + 1
  /\ pc' = "label"
  /\ UNCHANGED <<src_cbl, gen, cbl, last_call, expr, env, mach, mv, units>>

NextLabels == AppendLabel \/ VisitInstr

SpecLabels == InitLabels /\ [][NextLabels]_vars

\* an unconditional jmp line
IsJmp(line) == line.repr_template = <<"\tjmp ", <<"j", 0>> >>

\* a conditional jump line
IsCondJump(line) ==
  \E mn \in {"je", "jne", "jl", "jle", "jg", "jge"} :
    line.repr_template = <<"\t" \o mn \o " ", <<"j", 0>> >>

\* C11: append_label(L) removes at most one line, the last one, and only when
\* that line is an unconditional jmp whose destination is L; every other
\* line, each conditional jump among them, stays where it was
C11_JumpElision ==
  [][(pc = "label" /\ pc' = "instr") =>
       LET old == icomp.body
           new == icomp'.body
           n == Len(old)
           L == <<".L", "p", ".", cbl.schedule[next_stmt]>>
           removed == Len(new) = n
       IN /\ Len(new) \in {n, n + 1}
          /\ new[Len(new)].repr_template = L \o <<":">>
          /\ SubSeq(new, 1, Len(new) - 1) = SubSeq(old, 1, Len(new) - 1)
          /\ removed => (n > 0 /\ IsJmp(old[n]) /\ old[n].jump_dests = <<L>>)
          /\ \A i \in 1..n : IsCondJump(old[i]) => (i < Len(new) /\ new[i] = old[i])
    ]_vars

C11_Witness ==
  /\ pc = "instr"
  /\ last_call.what = "pop_back"
  /\ \E i \in 1..(Len(icomp.body) - 1) :
       /\ IsJmp(icomp.body[i])
       /\ icomp.body[i + 1].repr_template[1] = ".L"
       /\ icomp.body[i + 1].repr_template # icomp.body[i].jump_dests[1] \o <<":">>
  /\ \E i \in 1..Len(icomp.body) : IsCondJump(icomp.body[i])


----------------------------------------------------------------------------
(* SpecUnits: the driver's getGlobals and transform, run on the same       *)
(* source::Program more than once in one process                           *)

MaxUnits == 2

\* GlobalVar::make
GlobalVar_make(name, ty, init) == [name |-> name, ty |-> ty, init |-> init]

\* read_num: std::stoll of the NUM token; the initializer of a global holds
\* the int64_t as its limbs
read_num(limbs) == IntConstant_make(limbs)

\* int(value) of an int64_t: the low 32 bits, shown as the limbs of the int
\* widened again
int_of(a) ==
  LET s == IF a[3] >= 2^15 THEN 2^16 - 1 ELSE 0
  IN <<s, s, a[3], a[4]>>

\* Expr::getArg(): NULL by default, a new int for the two constant nodes
getArg(e) ==
  CASE e.k = "IntConstant" -> [null |-> FALSE, val |-> int_of(e.value)]
    [] e.k = "BoolConstant" -> [null |-> FALSE, val |-> <<0, 0, 0, IF e.value THEN 1 ELSE 0>>]
    [] OTHER -> [null |-> TRUE, val |-> <<0, 0, 0, 0>>]

\* std::map::insert: an existing key keeps its value
map_insert(m, key, val) == IF key \in DOMAIN m THEN m ELSE (key :> val) @@ m

\* one iteration of the loop of getGlobals; r carries the namespace-scope
\* variables and what was written to std::cout
getGlobals_step(r, glb) ==
  IF glb.ty \in {"INT64", "BOOL", "POINTER", "LIST"}
    THEN IF getArg(glb.init).null
      THEN [r EXCEPT !.cout = Append(@, <<"Bad variable initialization for ", glb.name>>)]
      ELSE [r EXCEPT
              !.process.global_var_init = map_insert(@, glb.name, getArg(glb.init).val),
              !.process.global_var_offset = map_insert(@, glb.name, r.process.globaloffset),
              !.process.globaloffset = @ + sizeOf(glb.ty)]
    ELSE r

RECURSIVE getGlobals_loop(_, _)
getGlobals_loop(r, global_vars) ==
  IF global_vars = <<>> THEN r
  ELSE getGlobals_loop(getGlobals_step(r, Head(global_vars)), Tail(global_vars))

\* getGlobals(src_prog): it has no throw and no exit
getGlobals(pr, prog) ==
  getGlobals_loop([process |-> pr, cout |-> <<>>, thrown |-> FALSE], prog.global_vars)

\* global variables in the order the loop of getGlobals meets them
vu == Variable_make("u", "INT64")
GlobalTables ==
  LET us == {GlobalVar_make("u", "INT64", e) :
               e \in {read_num(<<0, 0, 0, 1>>), UnopApp_make("Negate", IntConstant_make(1))}}
      ws == {GlobalVar_make("w", "BOOL", e) :
               e \in {BoolConstant_make(TRUE), UnopApp_make("LogNot", BoolConstant_make(TRUE))}}
  IN {<<>>} \cup {<<u>> : u \in us} \cup {<<w>> : w \in ws}
       \cup {<<u, w>> : u \in us, w \in ws} \cup {<<w, u>> : u \in us, w \in ws}

\* var q = &1 : int64*;  and  var q = &x : int64*;
DeclareAddressOf(e) == Declare_make("q", "POINTER", Address_make(e))
\* bodies that take an address, of an expression that has none or of x
AddressBodies ==
  { <<DeclareAddressOf(IntConstant_make(1))>>,
    <<Assign_make(vx, IntConstant_make(2)), DeclareAddressOf(IntConstant_make(1))>>,
    <<Assign_make(vx, IntConstant_make(2)), DeclareAddressOf(BinopApp_make(vx, "Add", vx))>>,
    <<DeclareAddressOf(vx)>> }

\* the procedures of the programs: one statement over the parameters, or one
\* over the global u
UnitCallables ==
  {c \in BodyCallables : Len(c.body) = 1}
    \cup {Callable_make("main", <<>>, "UNKNOWN", <<st>>) :
            st \in {Print_make(vu), Assign_make(vu, IntConstant_make(2))}}
    \cup {Callable_make("p", <<<<"b", "BOOL">>, <<"x", "INT64">>>>, "UNKNOWN", sts) :
            sts \in AddressBodies}

Programs2 ==
  {[global_vars |-> gv, callables |-> <<c>>] : gv \in GlobalTables, c \in UnitCallables}

InitUnits ==
  /\ src_prog \in Programs2
  /\ process = NewProcess
  /\ outputs = <<>>
  /\ factory = IdleFactory
  /\ pc = "getGlobals"
  /\ src_cbl = IdleCallable
  /\ gen = NewGen("")
  /\ next_stmt = 1
  /\ cbl = IdleCallable
  /\ last_call = IdleCall
  /\ expr = IdleExpr
  /\ env = IdleEnv
  /\ mach = IdleMach
  /\ mv = IdleMove
  /\ icomp = IdleCompiler

unit_others == <<cbl, last_call, expr, env, mach, mv, icomp, factory>>

\* auto gvars = rtl::getGlobals(prog)
GetGlobals ==
  /\ pc = "getGlobals"
  /\ Len(outputs) < MaxUnits
  /\ LET r == getGlobals(process, src_prog)
     IN /\ process' = r.process
        /\ outputs' = Append(outputs, [gvars |-> r.process.global_var_init,
                                       cout |-> r.cout, rtl_prog |-> <<>>,
                                       written |-> FALSE])
        /\ pc' = IF r.thrown THEN "error" ELSE "transform"
  /\ UNCHANGED <<src_prog, src_cbl, gen, next_stmt, unit_others>>

\* the rtl::Program that transform is filling
rtl_prog == outputs[Len(outputs)].rtl_prog

\* transform: RtlGen gen{src_prog, cbl.first} for the next callable; the
\* constructor (Prologue, VisitStmt, Epilogue) draws from the namespace-scope
\* counters and tables
Construct ==
  /\ pc = "transform"
  /\ Len(rtl_prog) < Len(src_prog.callables)
  /\ src_cbl' = src_prog.callables[Len(rtl_prog) + 1]
  /\ gen' = [NewGen(src_cbl'.name) EXCEPT !.last_pseudo = process.last_pseudo,
                                          !.last_label = process.last_label,
                                          !.global_var_init = process.global_var_init]
  /\ next_stmt' = 1
  /\ pc' = "start"
  /\ UNCHANGED <<src_prog, process, outputs, unit_others>>

\* transform: rtl_prog.push_back(gen.deliver()); after the last callable the
\* driver writes gvars and rtl_prog to the .rtl file
Deliver ==
  /\ pc = "done"
  /\ src_prog # IdleProgram
  /\ process' = [process EXCEPT !.last_pseudo = gen.last_pseudo,
                                !.last_label = gen.last_label]
  /\ outputs' = [outputs EXCEPT
                   ![Len(outputs)].rtl_prog = Append(@, gen.rtl_cbl),
                   ![Len(outputs)].written = Len(rtl_prog) + 1 = Len(src_prog.callables)]
  /\ pc' = IF Len(rtl_prog) + 1 = Len(src_prog.callables) THEN "getGlobals"
           ELSE "transform"
  /\ UNCHANGED <<src_prog, src_cbl, gen, next_stmt, unit_others>>

NextUnits == GetGlobals \/ Construct \/ Prologue \/ VisitStmt \/ Epilogue \/ Deliver

SpecUnits == InitUnits /\ [][NextUnits]_vars

\* C12: every compilation of the same source in one process writes the same
\* global table and the same rtl program (same label ids, same pseudo ids)
C12_Deterministic ==
  \A i, j \in DOMAIN outputs :
    (outputs[i].written /\ outputs[j].written) =>
      /\ outputs[i].gvars = outputs[j].gvars
      /\ outputs[i].rtl_prog = outputs[j].rtl_prog

\* some global of the program has an initializer whose getArg() is NULL
HasBadInit(prog) ==
  \E i \in DOMAIN prog.global_vars : getArg(prog.global_vars[i].init).null

AddressOfNonAssignable(stmts) ==
  \E i \in DOMAIN stmts :
    /\ stmts[i].k = "Declare"
    /\ stmts[i].init.k = "Address"
    /\ stmts[i].init.src.k # "Variable"

\* C14: a callable that takes the address of a non-assignable expression is
\* never delivered: its lowering aborts
C14_NonAssignableAborts ==
  (pc = "done" /\ src_prog # IdleProgram) => ~AddressOfNonAssignable(src_cbl.body)


----------------------------------------------------------------------------
(* SpecRender: one Asm line built by a factory function and written with   *)
(* operator<<(std::ostream&, Asm const&)                                   *)

\* the characters that may follow a backtick in the templates considered
Letters == {"s", "d", "j", "q", "x"}

\* a token <<c, n>> of a template is a backtick, the character c and the
\* digit n; every other token is text without a backtick
IsPlaceholder(tok) ==
  \E c \in Letters, n \in 0..9 : ToString(tok) = ToString(<<c, n>>)

\* what operator<< writes for one token; use[n], def[n] and jump_dests[n] are
\* unchecked std::vector reads
render_token(line, tok, oob) ==
  IF ~IsPlaceholder(tok) THEN [piece |-> tok, thrown |-> FALSE]
  ELSE CASE tok[1] = "s" ->
              [piece |-> <<"Pseudo", vec_at(line.use, tok[2], oob)>>, thrown |-> FALSE]
         [] tok[1] = "d" ->
              [piece |-> <<"Pseudo", vec_at(line.def, tok[2], oob)>>, thrown |-> FALSE]
         [] tok[1] = "j" ->
              [piece |-> <<"Label", vec_at(line.jump_dests, tok[2], oob)>>,
               thrown |-> FALSE]
         [] OTHER -> [piece |-> <<>>, thrown |-> TRUE]

RECURSIVE render_from(_, _, _, _)
\* the loop of operator<< from token i on; r is what was written so far
render_from(line, i, r, oob) ==
  IF i > Len(line.repr_template) THEN [r EXCEPT !.text = Append(@, "\n")]
  ELSE Bind(render_token(line, line.repr_template[i], oob), LAMBDA t :
         IF t.thrown THEN [r EXCEPT !.thrown = TRUE, !.what = "bad repr_template"]
         ELSE render_from(line, i + 1, [r EXCEPT !.text = Append(@, t.piece)], oob))

\* operator<<(std::ostream&, Asm const&)
render(line, oob) == render_from(line, 1, [text |-> <<>>, thrown |-> FALSE, what |-> ""], oob)

ArithBinops == {"mov", "movabs", "add", "sub", "and", "or", "xor"}
BranchOps == {"jmp", "je", "jne", "jl", "jle", "jg", "jge"}
\* stack slots bound to the pseudo operands
Slots == {1, 2}

\* the calls of the factory functions: which function, its mnemonic where a
\* macro defines several, pseudo or label operands a and b, the immediate
FactoryCalls ==
  [f : {"cqo", "ret"}, mnemonic : {""}, a : {0}, b : {0}, imm : {<<0, 0, 0, 0>>}]
  \cup [f : {"directive", "call", "set_label"}, mnemonic : {""}, a : 0..1, b : {0},
        imm : {<<0, 0, 0, 0>>}]
  \cup [f : {"imulq", "idivq", "pushq", "popq"}, mnemonic : {""}, a : Slots, b : {0},
        imm : {<<0, 0, 0, 0>>}]
  \cup [f : {"cmpq"}, mnemonic : {""}, a : Slots, b : Slots, imm : {<<0, 0, 0, 0>>}]
  \cup [f : {"cmpq_imm"}, mnemonic : {""}, a : Slots, b : {0}, imm : {<<0, 0, 0, 0>>, <<7, 0, 0, 0>>}]
  \cup [f : {"arith_imm"}, mnemonic : ArithBinops, a : Slots, b : {0},
        imm : {<<1, 0, 0, 0>>, INT32_MIN}]
  \cup [f : {"arith"}, mnemonic : ArithBinops, a : Slots, b : Slots, imm : {<<0, 0, 0, 0>>}]
  \cup [f : {"unop"}, mnemonic : {"neg", "not"}, a : Slots, b : {0}, imm : {<<0, 0, 0, 0>>}]
  \cup [f : {"shift"}, mnemonic : {"sar", "shr", "sal"}, a : Slots, b : {0},
        imm : {<<0, 0, 0, 0>>}]
  \cup [f : {"branch"}, mnemonic : BranchOps, a : 0..1, b : {0}, imm : {<<0, 0, 0, 0>>}]

\* the Asm the factory call returns, as InstrCompiler and finalize call it
make(ic, fc) ==
  CASE fc.f = "cqo" -> Asm_cqo
    [] fc.f = "ret" -> Asm_ret
    [] fc.f = "directive" ->
         Asm_directive(IF fc.a = 0 THEN ".globl " \o ic.funcname ELSE ".section .text")
    [] fc.f = "call" -> Asm_call(IF fc.a = 0 THEN "bx_print_int" ELSE "bx_print_bool")
    [] fc.f = "set_label" ->
         Asm_set_label(IF fc.a = 0 THEN <<ic.funcname>> ELSE label_translate(ic, fc.a))
    [] fc.f = "imulq" -> Asm_imulq(fc.a)
    [] fc.f = "idivq" -> Asm_idivq(fc.a)
    [] fc.f = "pushq" -> Asm_pushq(fc.a)
    [] fc.f = "popq" -> Asm_popq(fc.a)
    [] fc.f = "cmpq" -> Asm_cmpq(fc.a, fc.b)
    [] fc.f = "cmpq_imm" -> Asm_cmpq_imm(fc.imm, fc.a)
    [] fc.f = "arith_imm" ->
         IF fc.mnemonic = "mov" THEN Asm_movq(fc.imm, fc.a)
         ELSE IF fc.mnemonic = "movabs" THEN Asm_movabsq(fc.imm, fc.a)
         ELSE Asm_arith_imm(fc.mnemonic, fc.imm, fc.a)
    [] fc.f = "arith" ->
         IF fc.mnemonic = "mov" THEN Asm_movq_reg(fc.a, fc.b)
         ELSE Asm_arith(fc.mnemonic, fc.a, fc.b)
    [] fc.f = "unop" -> Asm_unop(fc.mnemonic, fc.a)
    [] fc.f = "shift" -> Asm_shift(fc.mnemonic, fc.a)
    [] fc.f = "branch" ->
         IF fc.mnemonic = "jmp" THEN Asm_jmp(label_translate(ic, fc.a))
         ELSE Asm_branch(fc.mnemonic, label_translate(ic, fc.a))

InitRender ==
  /\ factory \in FactoryCalls
  /\ icomp = NewCompiler("p")
  /\ pc = "build"
  /\ outputs = <<>>
  /\ src_prog = IdleProgram
  /\ process = NewProcess
  /\ src_cbl = IdleCallable
  /\ gen = NewGen("")
  /\ next_stmt = 1
  /\ cbl = IdleCallable
  /\ last_call = IdleCall
  /\ expr = IdleExpr
  /\ env = IdleEnv
  /\ mach = IdleMach
  /\ mv = IdleMove

render_others == <<src_cbl, gen, next_stmt, cbl, last_call, expr, env, mach, mv,
                   src_prog, process, factory>>

\* append(Asm::f(...))
BuildLine ==
  /\ pc = "build"
  /\ icomp' = append(icomp, make(icomp, factory))
  /\ pc' = "write"
  /\ UNCHANGED <<outputs, render_others>>

\* s_out << *l for the line
WriteLine ==
  /\ pc = "write"
  /\ \E oob \in Garbage :
       outputs' = Append(outputs, render(icomp.body[Len(icomp.body)], oob))
  /\ pc' = IF outputs'[Len(outputs')].thrown THEN "error" ELSE "written"
  /\ UNCHANGED <<icomp, render_others>>

NextRender == BuildLine \/ WriteLine

SpecRender == InitRender /\ [][NextRender]_vars

\* the placeholders of a template
PlaceholdersOf(line) ==
  {i \in DOMAIN line.repr_template : IsPlaceholder(line.repr_template[i])}

\* the vector a placeholder letter indexes
VectorOf(line, c) ==
  CASE c = "s" -> line.use
    [] c = "d" -> line.def
    [] c = "j" -> line.jump_dests
    [] OTHER -> <<>>

\* C15: every line a factory function builds has each placeholder index below
\* the size of the vector it reads, and writing the line replaces every
\* placeholder: "bad repr_template" is never raised and no placeholder is
\* left in the text
C15_NoUnresolvedPlaceholder ==
  /\ pc # "error"
  /\ pc \in {"write", "written"} =>
       \A i \in PlaceholdersOf(icomp.body[1]) :
         icomp.body[1].repr_template[i][2] < Len(VectorOf(icomp.body[1], icomp.body[1].repr_template[i][1]))
  /\ pc = "written" =>
       /\ ~outputs[1].thrown
       /\ \A i \in DOMAIN outputs[1].text : ~IsPlaceholder(outputs[1].text[i])

C15_Witness ==
  /\ pc = "written"
  /\ factory.f = "cmpq"
  /\ outputs[1].text = <<"\tcmpq ", <<"Pseudo", factory.a>>, ", ",
                         <<"Pseudo", factory.b>>, "\n">>


----------------------------------------------------------------------------
(* SpecCheck: check::type_check on a source::Program.  A panic is the      *)
(* std::runtime_error it throws; "" stands for no panic.                   *)

\* TypeChecker::visit_checked on a constant: its meta->ty against expected
visit_checked(e, expected) == IF e.ty # expected THEN "type mismatch" ELSE ""

RECURSIVE check_visitExpr(_)
\* TypeChecker::visit of an expression built from constants: the panic, if
\* any, and the meta->ty it leaves on the node
check_visitExpr(e) ==
  CASE e.k = "IntConstant" -> [msg |-> "", ty |-> "INT64"]
    [] e.k = "BoolConstant" -> [msg |-> "", ty |-> "BOOL"]
    [] e.k = "BinopApp" ->
         LET l == check_visitExpr(e.left_arg)
             r == check_visitExpr(e.right_arg)
             expected == CASE e.op \in {"Add", "Lt"} -> "INT64"
                           [] e.op = "BoolAnd" -> "BOOL"
                           [] OTHER -> l.ty
             ty == IF e.op = "Add" THEN "INT64" ELSE "BOOL"
         IN IF l.msg # "" THEN [msg |-> l.msg, ty |-> "UNKNOWN"]
            ELSE IF l.ty # expected THEN [msg |-> "type mismatch", ty |-> "UNKNOWN"]
            ELSE IF r.msg # "" THEN [msg |-> r.msg, ty |-> "UNKNOWN"]
            ELSE IF r.ty # expected THEN [msg |-> "type mismatch", ty |-> "UNKNOWN"]
            ELSE [msg |-> "", ty |-> ty]

RECURSIVE check_visitStmt(_, _)
\* TypeChecker::visit of a statement, for the statements of CheckedBodies
check_visitStmt(st, current_return_ty) ==
  CASE st.k = "Return" ->
         IF st.arg # NoExpr THEN visit_checked(st.arg, current_return_ty) ELSE ""
    [] st.k \in {"Print", "Eval"} -> ""
    [] st.k = "IfElse" ->
         Bind(check_visitExpr(st.condition), LAMBDA c :
           IF c.msg # "" THEN c.msg
           ELSE IF c.ty = "BOOL" THEN "if condition is not a bool expression"
           ELSE Bind(check_visitStmt(st.true_branch, current_return_ty), LAMBDA msg :
                  IF msg # "" THEN msg
                  ELSE check_visitStmt(st.false_branch, current_return_ty)))
    [] st.k = "While" ->
         Bind(check_visitExpr(st.condition), LAMBDA c :
           IF c.msg # "" THEN c.msg
           ELSE IF c.ty = "BOOL" THEN "while condition is not a bool expression"
           ELSE check_visitStmt(st.loop_body, current_return_ty))
    [] st.k = "Block" ->
         IF st.body = <<>> THEN ""
         ELSE Bind(check_visitStmt(Head(st.body), current_return_ty), LAMBDA msg :
                IF msg # "" THEN msg
                ELSE check_visitStmt(Block_make(Tail(st.body)), current_return_ty))

RECURSIVE ReturnCheck(_)
\* TypeChecker::ReturnCheck
ReturnCheck(st) ==
  CASE st.k = "Return" -> TRUE
    [] st.k = "IfElse" -> ReturnCheck(st.true_branch) /\ ReturnCheck(st.false_branch)
    [] st.k = "Block" -> \E i \in DOMAIN st.body : ReturnCheck(st.body[i])
    [] OTHER -> FALSE

\* TypeChecker::visit(Callable)
check_visitCallable(c) ==
  Bind(check_visitStmt(Block_make(c.body), c.return_ty), LAMBDA msg :
    IF msg # "" THEN msg
    ELSE IF c.return_ty # "UNKNOWN" /\ ~ReturnCheck(Block_make(c.body))
      THEN "does not return in every code path"
      ELSE "")

RECURSIVE check_callables(_)
\* the loop of type_check over src_prog.callables: the first panic
check_callables(callables) ==
  IF callables = <<>> THEN ""
  ELSE Bind(check_visitCallable(Head(callables)), LAMBDA msg :
         IF msg # "" THEN msg ELSE check_callables(Tail(callables)))

\* src_prog.callables.find("main")
find(callables, name) == {i \in DOMAIN callables : callables[i].name = name}

\* a type_check that takes any callable named main
type_check_any_main(prog) ==
  Bind(check_callables(prog.callables), LAMBDA msg :
    IF msg # "" THEN msg
    ELSE IF find(prog.callables, "main") = {}
      THEN "Cannot find main() procedure"
      ELSE "")

\* type_check(src_prog)
type_check(prog) ==
  Bind(check_callables(prog.callables), LAMBDA msg :
    IF msg # "" THEN msg
    ELSE IF \/ find(prog.callables, "main") = {}
            \/ \E i \in find(prog.callables, "main") :
                 prog.callables[i].return_ty # "UNKNOWN"
      THEN "Cannot find main() procedure"
      ELSE "")

CheckedBodies ==
  { <<>>, <<Return_make(NoExpr)>>, <<Return_make(IntConstant_make(1))>>,
    <<Return_make(BoolConstant_make(TRUE))>>, <<Print_make(IntConstant_make(1))>>,
    <<Block_make(<<Return_make(IntConstant_make(1))>>)>> }

CheckedCallables(name) ==
  {Callable_make(name, <<>>, ty, b) :
     ty \in {"UNKNOWN", "INT64", "BOOL"}, b \in CheckedBodies}

\* programs of at most two callables, in the order the loop meets them
CheckedPrograms ==
  {[global_vars |-> <<>>, callables |-> cs] :
     cs \in {<<>>} \cup {<<c>> : c \in CheckedCallables("main") \cup CheckedCallables("f")}
              \cup {<<c, d>> : c \in CheckedCallables("main"), d \in CheckedCallables("f")}
              \cup {<<d, c>> : c \in CheckedCallables("main"), d \in CheckedCallables("f")}}

InitCheck ==
  /\ src_prog \in CheckedPrograms
  /\ pc = "type_check"
  /\ outputs = <<>>
  /\ process = NewProcess
  /\ factory = IdleFactory
  /\ src_cbl = IdleCallable
  /\ gen = NewGen("")
  /\ next_stmt = 1
  /\ cbl = IdleCallable
  /\ last_call = IdleCall
  /\ expr = IdleExpr
  /\ env = IdleEnv
  /\ mach = IdleMach
  /\ mv = IdleMove
  /\ icomp = IdleCompiler

\* check::type_check(prog) in the driver
TypeCheck ==
  /\ pc = "type_check"
  /\ outputs' = <<[thrown |-> type_check(src_prog) # "", what |-> type_check(src_prog)]>>
  /\ pc' = IF type_check(src_prog) # "" THEN "error" ELSE "checked"
  /\ UNCHANGED <<src_prog, process, factory, src_cbl, gen, next_stmt, cbl, last_call,
                 expr, env, mach, mv, icomp>>

NextCheck == TypeCheck

SpecCheck == InitCheck /\ [][NextCheck]_vars

\* every callable of the program passes TypeChecker::visit
AllCallablesChecked(prog) ==
  \A i \in DOMAIN prog.callables : check_visitCallable(prog.callables[i]) = ""

\* the program has a callable named main, declared without a return type
HasProcMain(prog) ==
  \E i \in DOMAIN prog.callables :
    prog.callables[i].name = "main" /\ prog.callables[i].return_ty = "UNKNOWN"

\* C16: type_check raises "Cannot find main() procedure" exactly when every
\* callable has been checked and the program has no procedure main (no
\* callable of that name, or one with a return type); with a procedure main
\* and every callable checked, type_check returns
C16_MissingMain ==
  pc \in {"checked", "error"} =>
    /\ (outputs[1].what = "Cannot find main() procedure") <=>
         (AllCallablesChecked(src_prog) /\ ~HasProcMain(src_prog))
    /\ (AllCallablesChecked(src_prog) /\ HasProcMain(src_prog)) => pc = "checked"

C16_Witness ==
  /\ pc = "error"
  /\ outputs[1].what = "Cannot find main() procedure"
  /\ \E i \in DOMAIN src_prog.callables :
       src_prog.callables[i].name = "main" /\ src_prog.callables[i].return_ty = "INT64"
  /\ Len(src_prog.callables) = 2


----------------------------------------------------------------------------
(* SpecRun: the RTL delivered for                                          *)
(*   proc main() { var x = n : int64; while (x > 0) { print x; x = x - 1; } } *)
(* executed from its enter label.  Pseudos are virtual registers, memory   *)
(* is what Store writes, as the instruction table of the RTL gives them.   *)

MaxStart == 5
MaxRunSteps == 60

CountDown(n) ==
  Callable_make("main", <<>>, "UNKNOWN",
    <<Declare_make("x", "INT64", IntConstant_make(n)),
      While_make(BinopApp_make(vx, "Gt", IntConstant_make(0)),
                 Block_make(<<Print_make(vx),
                              Assign_make(vx, BinopApp_make(vx, "Subtract",
                                                            IntConstant_make(1)))>>))>>)

\* dst <- dst op src
binop(opcode, dst, src) ==
  CASE opcode = "ADD" -> dst + src
    [] opcode = "SUB" -> dst - src

\* one instruction of a callable with a frame: the instructions that touch
\* machine registers, memory and the runtime, and exec for the rest
exec_frame(m, i, junk) ==
  LET rd(p) == IF p \in DOMAIN m.regs THEN m.regs[p] ELSE junk
      mrd(r) == IF r \in DOMAIN m.mregs THEN m.mregs[r] ELSE junk
      next == [m EXCEPT !.at = i.succ, !.steps = @ + 1]
  IN CASE i.op = "NewFrame" ->
            [next EXCEPT !.mregs = ("rbp" :> mrd("rsp")) @@ ("rsp" :> mrd("rsp") - i.size) @@ @]
       [] i.op = "DelFrame" -> [next EXCEPT !.mregs = ("rsp" :> mrd("rbp")) @@ @]
       [] i.op = "CopyPM" -> [next EXCEPT !.mregs = (i.dest :> rd(i.src)) @@ @]
       [] i.op = "CopyAP" -> [next EXCEPT !.regs = (i.dest :> i.offset + mrd(i.mreg)) @@ @]
       [] i.op = "Store" ->
            [next EXCEPT !.mem = (rd(i.base) + i.offset :> rd(i.src)) @@ @]
       [] i.op = "Binop" ->
            [next EXCEPT !.regs = (i.dest :> binop(i.opcode, rd(i.dest), rd(i.src))) @@ @]
       [] i.op = "Call" /\ i.func = "bx_print_int" ->
            [next EXCEPT !.out = Append(@, mrd("rdi"))]
       [] OTHER -> exec(m, i, EmptyMap, junk)

InitRun ==
  /\ src_cbl \in {CountDown(n) : n \in 0..MaxStart}
  /\ gen = NewGen(src_cbl.name)
  /\ pc = "start"
  /\ next_stmt = 1
  /\ cbl = IdleCallable
  /\ last_call = IdleCall
  /\ expr = IdleExpr
  /\ env = IdleEnv
  /\ mach = IdleMach
  /\ mv = IdleMove
  /\ icomp = IdleCompiler
  /\ IdleUnits

\* the caller's call: control enters the delivered callable at its enter
\* label with the caller's machine registers
Enter ==
  /\ pc = "done"
  /\ mach' = [at |-> enter, regs |-> EmptyMap,
              mregs |-> [r \in {"rsp", "rbx", "rbp", "r12", "r13", "r14", "r15"} |-> 0],
              steps |-> 0, mem |-> EmptyMap, out |-> <<>>]
  /\ pc' = "run"
  /\ UNCHANGED <<src_cbl, gen, next_stmt, cbl, last_call, expr, env, mv, icomp, units>>

\* the machine executes the instruction at its label
RunStep ==
  /\ pc = "run"
  /\ mach.at \in DOMAIN body
  /\ body[mach.at].op # "Return"
  /\ mach.steps < MaxRunSteps
  /\ \E junk \in 0..1 : mach' = exec_frame(mach, body[mach.at], junk)
  /\ UNCHANGED <<src_cbl, gen, pc, next_stmt, cbl, last_call, expr, env, mv, icomp, units>>

NextRun == Prologue \/ VisitStmt \/ Epilogue \/ Enter \/ RunStep

SpecRun == InitRun /\ [][NextRun]_vars

\* C17: each read of x observes the value the latest assignment gave it: the
\* run started with x = n prints n, n - 1, ... in this order
C17_ReadObservesAssignment ==
  pc = "run" =>
    \A i \in DOMAIN mach.out : mach.out[i] = src_cbl.body[1].init.value + 1 - i


----------------------------------------------------------------------------
(* Frame layout and register discipline of the delivered Callable (Spec)   *)

\* the bytes of variable v, as offsets from %rbp: the lowerer addresses v as
\* -var_offset[v](%rbp) and every int64 and bool takes sizeOf = 8 bytes up
StorageOf(v) == (0 - gen.var_offset[v]) .. (0 - gen.var_offset[v] + sizeOf("INT64") - 1)

\* the bytes NewFrame reserves below %rbp
FrameBytes == (0 - body[enter].size) .. (0 - 1)

\* C18: every parameter and local variable lies at a strictly negative offset
\* from %rbp, inside the frame NewFrame reserves, and apart from every other
\* variable
C18_FrameOffsets ==
  Delivered =>
    \A v \in DOMAIN gen.var_offset :
      /\ 0 - gen.var_offset[v] < 0
      /\ StorageOf(v) \subseteq FrameBytes
      /\ \A w \in DOMAIN gen.var_offset \ {v} : StorageOf(v) \cap StorageOf(w) = {}


\* the pseudos instruction i writes: the dest of the instructions that have a
\* pseudo for dest, and the operand a Unop updates in place
WrittenBy(i) ==
  CASE i.op \in {"Move", "Copy", "CopyMP", "LoadParam", "Load", "CopyAP", "Binop"} -> {i.dest}
    [] i.op = "Unop" -> {i.arg}
    [] OTHER -> {}

\* the labels whose instruction saves callee-saved register k into pseudo p
SavesOf(k, p) ==
  {l \in LabelsOf("CopyMP") : body[l].src = callee_saved[k] /\ body[l].dest = p}

\* the labels whose instruction restores callee-saved register k from pseudo p
RestoresOf(k, p) ==
  {l \in LabelsOf("CopyPM") : body[l].dest = callee_saved[k] /\ body[l].src = p}

\* C19: in every delivered Callable each callee-saved register is saved by
\* CopyMP into a fresh pseudo of its own right after NewFrame, before any
\* parameter read or body instruction; no other instruction writes that
\* pseudo; and no path from enter reaches DelFrame or Return without passing
\* the CopyPM that restores the register from that pseudo
C19_CalleeSavedPreserved ==
  Delivered =>
    LET chain == Walk(enter, NumCalleeSaved + 1)
    IN /\ Len(chain) = NumCalleeSaved + 1
       /\ chain[1].op = "NewFrame"
       /\ \A k \in 1..NumCalleeSaved :
            LET p == gen.saved_locs[k]
            IN /\ chain[1 + k] = [op |-> "CopyMP", src |-> callee_saved[k],
                                  dest |-> p, succ |-> chain[1 + k].succ]
               /\ \A j \in 1..NumCalleeSaved : j # k => gen.saved_locs[j] # p
               /\ \A v \in DOMAIN gen.var_table : gen.var_table[v] # p
               /\ \A l \in Labels : p \in WrittenBy(body[l]) => l \in SavesOf(k, p)
               /\ Cardinality(SavesOf(k, p)) = 1
               /\ (LabelsOf("DelFrame") \cup LabelsOf("Return"))
                    \cap ReachFrom({enter}, RestoresOf(k, p), {}) = {}

\* the statements of Stmts that are a call with a bool-typed argument
BoolArgCalls == {StmtOr, Eval_make(Call_make("h", <<vb>>))}

\* the labels whose instruction places the first argument of a call of h or k
PlacedBoolArgs ==
  {l \in LabelsOf("CopyPM") :
     body[l].dest = regargs[1] /\ body[l].succ \in CallsTo("h") \cup CallsTo("k")}

\* pseudo p is the result of an intify: one Move sets it to 1, another to 0
IsIntified(p) ==
  \E t, f \in LabelsOf("Move") :
    /\ body[t].dest = p /\ body[t].source = 1
    /\ body[f].dest = p /\ body[f].source = 0

\* C20: in a delivered Callable whose statements are calls with a bool-typed
\* argument, the pseudo placed for that argument is the result of intify, and
\* both exits of every branch are installed in body
C20_BoolArgIntified ==
  (Delivered /\ \A i \in 1..Len(src_cbl.body) : src_cbl.body[i] \in BoolArgCalls) =>
    /\ PlacedBoolArgs # {}
    /\ \A l \in PlacedBoolArgs : IsIntified(body[l].src)
    /\ \A u \in LabelsOf("Ubranch") \cup LabelsOf("Bbranch") :
         Succs(body[u]) \subseteq Labels


----------------------------------------------------------------------------
(* SpecReturn: value-returning callables                                   *)
(*   fun fn(b : bool, c : bool, x : int64) : T { [if (c) { return e1; }] return e2; } *)
(* lowered, then called with the arguments of env and executed to Return.  *)

ReturnExprs ==
  { vx, IntConstant_make(2),
    vb, BoolConstant_make(FALSE),
    BinopApp_make(vx, "Lt", IntConstant_make(1)),
    BinopApp_make(vb, "BoolAnd", vc),
    Call_make("f", <<>>) }

ReturnParams == <<<<"b", "BOOL">>, <<"c", "BOOL">>, <<"x", "INT64">>>>

ReturnCallables ==
  {Callable_make("fn", ReturnParams, e.ty, <<Return_make(e)>>) : e \in ReturnExprs}
    \cup {Callable_make("fn", ReturnParams, ee[2].ty,
            <<IfElse_make(vc, Block_make(<<Return_make(ee[1])>>), Block_make(<<>>)),
              Return_make(ee[2])>>) :
            ee \in {x \in ReturnExprs \X ReturnExprs : x[1].ty = x[2].ty}}

\* the 64-bit integer an expression's value is returned as
ValueOf(e, v) == IF e.ty = "BOOL" THEN ToInt(eval(e, v)) ELSE eval(e, v)

\* one instruction of a callable that calls the functions of env
exec_call(m, i, v, junk) ==
  IF i.op = "Call" /\ i.func \in DOMAIN v THEN exec(m, i, v, junk)
  ELSE exec_frame(m, i, junk)

InitReturn ==
  /\ src_cbl \in ReturnCallables
  /\ env \in Envs
  /\ gen = NewGen(src_cbl.name)
  /\ pc = "start"
  /\ next_stmt = 1
  /\ cbl = IdleCallable
  /\ last_call = IdleCall
  /\ expr = IdleExpr
  /\ mach = IdleMach
  /\ mv = IdleMove
  /\ icomp = IdleCompiler
  /\ IdleUnits

\* the caller's call: the arguments are in rdi, rsi, rdx and control enters
\* the delivered callable at its enter label
CallFn ==
  /\ pc = "done"
  /\ mach' = [at |-> enter, regs |-> EmptyMap,
              mregs |-> [r \in {"rsp", "rbx", "rbp", "r12", "r13", "r14", "r15"} |-> 0]
                          @@ (regargs[1] :> ToInt(env.b))
                          @@ (regargs[2] :> ToInt(env.c))
                          @@ (regargs[3] :> env.x),
              steps |-> 0, mem |-> EmptyMap, out |-> <<>>]
  /\ pc' = "run"
  /\ UNCHANGED <<src_cbl, gen, next_stmt, cbl, last_call, expr, env, mv, icomp, units>>

\* the machine executes the instruction at its label
Execute ==
  /\ pc = "run"
  /\ mach.at \in DOMAIN body
  /\ body[mach.at].op # "Return"
  /\ mach.steps < MaxRunSteps
  /\ \E junk \in 0..1 : mach' = exec_call(mach, body[mach.at], env, junk)
  /\ UNCHANGED <<src_cbl, gen, pc, next_stmt, cbl, last_call, expr, env, mv, icomp, units>>

NextReturn == Prologue \/ VisitStmt \/ Epilogue \/ CallFn \/ Execute

SpecReturn == InitReturn /\ [][NextReturn]_vars

\* the return statement the run with the arguments of env executes
ReturnTaken ==
  IF Len(src_cbl.body) = 2 /\ env.c
    THEN src_cbl.body[1].true_branch.body[1]
    ELSE src_cbl.body[Len(src_cbl.body)]

AtReturn == pc = "run" /\ mach.at \in DOMAIN body /\ body[mach.at].op = "Return"

\* C21: when the run of a value-returning callable arrives at the Return
\* instruction, rax holds the value of the expression of the return statement
\* it executed (1 or 0 for a bool)
C21_RaxHoldsReturnValue ==
  AtReturn =>
    /\ "rax" \in DOMAIN mach.mregs
    /\ mach.mregs["rax"] = ValueOf(ReturnTaken.arg, env)


----------------------------------------------------------------------------
(* SpecLists: callables that declare a list and use alloc and list elements *)
(*   proc p(n : int64, i : int64) { var l = 0 : list[int64; len]; ... }     *)

\* elements of the declared list: 1..MaxLen
MaxLen == 3

vn == Variable_make("n", "INT64")
vi == Variable_make("i", "INT64")
vl(len) == ListVariable_make("l", "INT64", len)

\* statements that follow the declaration of l
ListStmts(len) ==
  { Declare_make("q", "POINTER", Alloc_make(vn, "INT64")),
    Declare_make("q", "POINTER", Alloc_make(IntConstant_make(2), "INT64")),
    Print_make(ListElem_make(vl(len), vi)),
    Assign_make(ListElem_make(vl(len), vi), IntConstant_make(7)),
    Assign_make(ListElem_make(vl(len), IntConstant_make(len - 1)), vn),
    Print_make(BinopApp_make(vn, "Add", vi)),
    Print_make(UnopApp_make("Negate", vi)) }
    \cup {Print_make(ListElem_make(vl(len), IntConstant_make(k))) : k \in 0..(len - 1)}

ListCallables ==
  UNION {{Callable_make("p", <<<<"n", "INT64">>, <<"i", "INT64">>>>, "UNKNOWN",
            <<DeclareList_make("l", "INT64", len, IntConstant_make(0))>> \o rest) :
            rest \in SeqsUpTo(ListStmts(len), MaxStmts)} : len \in 1..MaxLen}

InitLists ==
  /\ src_cbl \in ListCallables
  /\ gen = NewGen(src_cbl.name)
  /\ pc = "start"
  /\ next_stmt = 1
  /\ cbl = IdleCallable
  /\ last_call = IdleCall
  /\ expr = IdleExpr
  /\ env = IdleEnv
  /\ mach = IdleMach
  /\ mv = IdleMove
  /\ icomp = IdleCompiler
  /\ IdleUnits

NextLists == Prologue \/ VisitStmt \/ Epilogue

SpecLists == InitLists /\ [][NextLists]_vars

\* the labels whose instruction writes the pseudo of source variable v
WritersOf(v) == {l \in Labels : gen.var_table[v] \in WrittenBy(body[l])}

\* C22: in a delivered Callable the pseudo of a source variable is written
\* only by the Copy of its declaration and by the read of a parameter; no
\* instruction of an expression or address computation (Binop, Unop, Move,
\* CopyAP, Load, the CopyMP of a call result) has it for destination
C22_VariablesNotClobbered ==
  Delivered =>
    \A v \in DOMAIN gen.var_table : \A l \in WritersOf(v) :
      \/ body[l].op = "Copy"
      \/ body[l].op = "CopyMP" /\ \E k \in 1..NumRegArgs : body[l].src = regargs[k]
      \/ body[l].op = "LoadParam"


\* the label of the CopyPM that places register r for the call at label c:
\* rdi, rsi and rdx are placed in this order right before the call
PlacedFor(c, r) ==
  CHOOSE l \in LabelsOf("CopyPM") :
    /\ body[l].dest = r
    /\ \/ r = "rdx" /\ body[l].succ = c
       \/ r = "rsi" /\ body[body[l].succ].succ = c
       \/ r = "rdi" /\ body[body[body[l].succ].succ].succ = c

\* the instruction that gives pseudo p its value
DefOf(p) == body[CHOOSE l \in Labels : p \in WrittenBy(body[l])]

\* the bytes, as offsets from %rbp, the memset call at label c zeroes:
\* memset(rdi, rsi, rdx) writes rdx bytes upwards from the address in rdi
ZeroedBytes(c) ==
  LET start == DefOf(body[PlacedFor(c, "rdi")].src).offset
      count == DefOf(body[PlacedFor(c, "rdx")].src).source
  IN start .. (start + count - 1)

\* the bytes in which the lowerer addresses the elements of the declared list:
\* element i at base - i * sizeOf(element), base = -var_offset(%rbp)
ElementBytes(dec) ==
  UNION {LET at == (0 - gen.var_offset[dec.var]) - i * sizeOf(dec.typ)
         IN at .. (at + sizeOf(dec.typ) - 1) : i \in 0..(dec.length - 1)}

\* C23: the memset call emitted for the declaration of a list zeroes exactly
\* the bytes in which the lowerer addresses the elements of that list
C23_MemsetCoversList ==
  Delivered =>
    \A c \in CallsTo("memset") : ZeroedBytes(c) = ElementBytes(src_cbl.body[1])


----------------------------------------------------------------------------
(* SpecCmp: the lines visit(rtl::Bbranch) appends, executed on operands of  *)
(* ValBits bits                                                            *)

\* operands are two's complement integers of ValBits bits
ValBits == 4
Vals == (0 - 2^(ValBits - 1)) .. (2^(ValBits - 1) - 1)

\* the value of ValBits bits that holds x
wrap(x) == ((x + 2^(ValBits - 1)) % 2^ValBits) - 2^(ValBits - 1)

BbranchCodes == {"JE", "JL", "JLE", "JG", "JGE", "JNE", "JNL", "JNLE", "JNG", "JNGE"}

\* Bbranch instructions on the pseudos 0 and 1, succ label 1, fail label 2
Bbranches ==
  { [op |-> "Bbranch", opcode |-> oc, arg1 |-> aa[1], arg2 |-> aa[2],
     succ |-> 1, fail |-> 2] : oc \in BbranchCodes, aa \in {<<0, 1>>, <<1, 1>>} }

\* a stack slot or a register as a key of the machine's store
operand(o) == ToString(o)

\* the flags cmpq S, D leaves: those of D - S
cmpq_flags(S, D) ==
  [zf |-> wrap(D - S) = 0, sf |-> wrap(D - S) < 0, of |-> wrap(D - S) # D - S]

\* whether the conditional jump of a line is taken under the flags f
jcc_taken(head, f) ==
  CASE head = "\tje " -> f.zf
    [] head = "\tjne " -> ~f.zf
    [] head = "\tjl " -> f.sf # f.of
    [] head = "\tjge " -> f.sf = f.of
    [] head = "\tjle " -> f.zf \/ f.sf # f.of
    [] head = "\tjg " -> ~f.zf /\ f.sf = f.of

\* one line of assembly executed by the machine m
asm_step(m, line) ==
  LET head == line.repr_template[1]
      next == [m EXCEPT !.at = @ + 1, !.steps = @ + 1]
      jump == [m EXCEPT !.at = 0, !.to = line.jump_dests[1], !.steps = @ + 1]
  IN CASE head = "\tmovq " ->
            [next EXCEPT !.store = (operand(line.def[1]) :> m.store[operand(line.use[1])]) @@ @]
       [] head = "\tcmpq " ->
            [next EXCEPT !.flags = cmpq_flags(m.store[operand(line.use[1])],
                                              m.store[operand(line.use[2])])]
       [] head = "\tjmp " -> jump
       [] OTHER -> IF jcc_taken(head, m.flags) THEN jump ELSE next

NoFlags == [zf |-> FALSE, sf |-> FALSE, of |-> FALSE]

InitCmp ==
  /\ mv \in Bbranches
  /\ env \in [0..1 -> Vals]
  /\ icomp = NewCompiler("p")
  /\ pc = "translate"
  /\ IdleUnits
  /\ next_stmt = 1
  /\ cbl = IdleCallable
  /\ last_call = IdleCall
  /\ src_cbl = IdleCallable
  /\ gen = NewGen("")
  /\ expr = IdleExpr
  /\ mach = IdleMach

\* mv.accept(icomp); the machine is put at the first line appended, with the
\* values of the pseudos in their stack slots
TranslateBbranch ==
  /\ pc = "translate"
  /\ icomp' = accept(icomp, mv)
  /\ mach' = [at |-> 1, steps |-> 0, to |-> <<>>, flags |-> NoFlags,
              store |-> [k \in {operand(icomp'.rmap[p]) : p \in DOMAIN icomp'.rmap} |->
                           env[CHOOSE p \in DOMAIN icomp'.rmap :
                                 operand(icomp'.rmap[p]) = k]]]
  /\ pc' = "asm"
  /\ UNCHANGED <<src_cbl, gen, next_stmt, cbl, last_call, expr, env, mv, units>>

\* the machine executes the line it is at
StepLine ==
  /\ pc = "asm"
  /\ mach.at \in 1..Len(icomp.body)
  /\ mach' = asm_step(mach, icomp.body[mach.at])
  /\ UNCHANGED <<src_cbl, gen, pc, next_stmt, cbl, last_call, expr, env, mv, icomp, units>>

NextCmp == TranslateBbranch \/ StepLine

SpecCmp == InitCmp /\ [][NextCmp]_vars

\* a op b as a signed comparison, for the ten opcodes of rtl::Bbranch
signed_holds(opcode, a, b) ==
  CASE opcode = "JE" -> a = b
    [] opcode = "JNE" -> a # b
    [] opcode \in {"JL", "JNGE"} -> a < b
    [] opcode \in {"JLE", "JNG"} -> a <= b
    [] opcode \in {"JG", "JNLE"} -> a > b
    [] opcode \in {"JGE", "JNL"} -> a >= b

\* the machine has left the lines of the Bbranch by a jump
Jumped == pc = "asm" /\ mach.at = 0

\* C24: the lines emitted for a Bbranch are movq a, %rcx; movq b, %rax;
\* cmpq %rax, %rcx; a conditional jump to fail; jmp to succ; executed on any
\* operands a and b they leave by a jump, to succ exactly when a op b holds as
\* a signed comparison and to fail otherwise
C24_BbranchSemantics ==
  /\ pc = "asm" =>
       /\ Len(icomp.body) = 5
       /\ icomp.body[1].repr_template[1] = "\tmovq " /\ icomp.body[1].def = <<"%rcx">>
       /\ icomp.body[2].repr_template[1] = "\tmovq " /\ icomp.body[2].def = <<"%rax">>
       /\ icomp.body[3].use = <<"%rax", "%rcx">>
       /\ icomp.body[4].jump_dests = <<label_translate(icomp, mv.fail)>>
       /\ icomp.body[5] = Asm_jmp(label_translate(icomp, mv.succ))
       /\ mach.at # Len(icomp.body) + 1
  /\ Jumped =>
       mach.to = label_translate(icomp,
                   IF signed_holds(mv.opcode, env[mv.arg1], env[mv.arg2])
                     THEN mv.succ ELSE mv.fail)

\* a JNGE on operands whose difference overflows has been executed, and taken
C24_Witness ==
  /\ Jumped
  /\ mv.opcode = "JNGE"
  /\ mach.flags.of
  /\ mach.to = label_translate(icomp, mv.succ)


----------------------------------------------------------------------------
(* SpecSlots: rtl_to_asm on rtl Callables whose instructions name pseudos,  *)
(* then finalize                                                           *)

\* ids of RTL pseudos: the discard pseudo and two others, not contiguous
PseudoIds == {DiscardId, 2, 5}

\* instructions that name pseudos; every jump goes to label 0
SlotInstrs ==
  {[op |-> "Move", source |-> <<0, 0, 0, 1>>, dest |-> p, succ |-> 0] : p \in PseudoIds}
    \cup {[op |-> "Ubranch", opcode |-> "JNZ", arg |-> p, succ |-> 0, fail |-> 0] :
            p \in PseudoIds}
    \cup {[op |-> "Bbranch", opcode |-> "JL", arg1 |-> pq[1], arg2 |-> pq[2],
           succ |-> 0, fail |-> 0] : pq \in {<<2, 5>>, <<5, 2>>, <<5, 5>>}}
    \cup {[op |-> "Goto", succ |-> 0]}

SlotPrograms ==
  { [NewCallable("p") EXCEPT !.body = b, !.schedule = [i \in 1..(MaxLabel + 1) |-> i - 1]] :
      b \in [0..MaxLabel -> SlotInstrs] }

InitSlots ==
  /\ cbl \in SlotPrograms
  /\ icomp = NewCompiler("p")
  /\ IdleUnits
  /\ pc = "label"
  /\ next_stmt = 1
  /\ last_call = IdleCall
  /\ src_cbl = IdleCallable
  /\ gen = NewGen("")
  /\ expr = IdleExpr
  /\ env = IdleEnv
  /\ mach = IdleMach
  /\ mv = IdleMove

\* return icomp.finalize()
Finalize ==
  /\ pc = "label"
  /\ next_stmt > Len(cbl.schedule)
  /\ outputs' = finalize(icomp)
  /\ pc' = "final"
  /\ UNCHANGED <<src_cbl, gen, next_stmt, cbl, last_call, expr, env, mach, mv, icomp,
                 src_prog, process, factory>>

NextSlots == AppendLabel \/ VisitInstr \/ Finalize

SpecSlots == InitSlots /\ [][NextSlots]_vars

\* the pseudos an instruction names, in the order its visit looks them up
NamedBy(i) ==
  CASE i.op = "Move" -> <<i.dest>>
    [] i.op = "Ubranch" -> <<i.arg>>
    [] i.op = "Bbranch" -> <<i.arg1, i.arg2>>
    [] OTHER -> <<>>

\* the operand o of a line is stack slot k
IsSlot(o, k) == ToString(o) = ToString(k)

\* the operand o of a line is a machine register
IsRegister(o) == \E r \in {"%rax", "%rcx", "%rsp", "%rbp"} : ToString(o) = ToString(r)

\* the operand o is a register, or a slot -8k(%rbp) inside a frame of 8 * n bytes
InsideFrame(o, n) ==
  \/ IsRegister(o)
  \/ \E k \in 1..n :
       /\ IsSlot(o, k)
       /\ (0 - 8 * k) .. (0 - 8 * k + 7) \subseteq (0 - 8 * n) .. (0 - 1)

\* the slots of rmap are 1..n, one per pseudo
SlotsOneToOne ==
  LET n == Cardinality(DOMAIN icomp.rmap)
  IN /\ \A r \in DOMAIN icomp.rmap : icomp.rmap[r] \in 1..n
     /\ \A r, q \in DOMAIN icomp.rmap : r # q => icomp.rmap[r] # icomp.rmap[q]

\* a step keeps the slot of every pseudo already mapped and gives the pseudos
\* it names for the first time the next slots, in the order it names them
SlotsStable ==
  /\ \A r \in DOMAIN icomp.rmap : r \in DOMAIN icomp'.rmap /\ icomp'.rmap[r] = icomp.rmap[r]
  /\ pc = "instr" =>
       LET named == NamedBy(cbl.body[cbl.schedule[next_stmt]])
       IN /\ \A j \in DOMAIN named : named[j] \in DOMAIN icomp'.rmap
          /\ \A j, k \in DOMAIN named :
               (j < k /\ named[j] \notin DOMAIN icomp.rmap /\ named[k] # named[j])
                 => icomp'.rmap[named[j]] < icomp'.rmap[named[k]]
                    \/ named[k] \in DOMAIN icomp.rmap

\* the program finalize returns reserves 8 * n bytes and every operand of its
\* lines is a register or a slot k of 1..n, that is -8k(%rbp) inside the frame
FrameCoversSlots ==
  pc = "final" =>
    LET n == Cardinality(DOMAIN icomp.rmap)
    IN /\ n > 0 => outputs[6] = Asm_arith_imm("sub", <<0, 0, 0, 8 * n>>, "%rsp")
       /\ \A i \in DOMAIN outputs :
            /\ \A j \in DOMAIN outputs[i].use : InsideFrame(outputs[i].use[j], n)
            /\ \A j \in DOMAIN outputs[i].def : InsideFrame(outputs[i].def[j], n)

\* C25: within one function translation lookup maps RTL pseudos to stack
\* slots lazily and one-to-one: a mapped pseudo keeps its slot, distinct
\* pseudos have distinct slots, the slots are 1..n in first-use order, and the
\* prologue reserves 8 * n bytes, so every slot used lies inside the frame
C25_SlotsOneToOne ==
  /\ [](SlotsOneToOne /\ FrameCoversSlots)
  /\ [][SlotsStable]_vars

\* a translation that used the three pseudos, pseudo 5 first, has been finalized
C25_Witness ==
  /\ pc = "final"
  /\ DOMAIN icomp.rmap = PseudoIds
  /\ icomp.rmap[5] = 1
  /\ icomp.rmap[DiscardId] = 3


----------------------------------------------------------------------------
(* SpecWhile: the callables                                                *)
(*   proc p(b : bool, c : bool, x : int64) { while (cond) { body } print 7; } *)
(* lowered, then called with the arguments of env and executed             *)

WhileConds ==
  BoolAtoms \cup { UnopApp_make("LogNot", vb),
                   BinopApp_make(vb, "BoolAnd", vc),
                   BinopApp_make(vb, "BoolOr", BinopApp_make(vx, "Lt", IntConstant_make(1))) }

\* the first statement of every loop body, and the statement after the loop
BodyMark == Print_make(IntConstant_make(5))
AfterMark == Print_make(IntConstant_make(7))

WhileBodies == { <<BodyMark>>, <<BodyMark, Return_make(NoExpr)>> }

WhileCallables ==
  {Callable_make("p", ReturnParams, "UNKNOWN",
     <<While_make(wc, Block_make(wb)), AfterMark>>) :
     wc \in WhileConds, wb \in WhileBodies}

InitWhile ==
  /\ src_cbl \in WhileCallables
  /\ env \in Envs
  /\ gen = NewGen(src_cbl.name)
  /\ pc = "start"
  /\ next_stmt = 1
  /\ cbl = IdleCallable
  /\ last_call = IdleCall
  /\ expr = IdleExpr
  /\ mach = IdleMach
  /\ mv = IdleMove
  /\ icomp = IdleCompiler
  /\ IdleUnits

NextWhile == Prologue \/ VisitStmt \/ Epilogue \/ CallFn \/ Execute

SpecWhile == InitWhile /\ [][NextWhile]_vars

\* the label at which the lowering of the first statement begins: the one
\* after the read of the last parameter
FirstStmtLabel ==
  body[CHOOSE l \in LabelsOf("CopyMP") : body[l].src = regargs[Len(src_cbl.args)]].succ

\* the machine is about to execute the Move of the constant k
AtMove(k) ==
  /\ pc = "run"
  /\ mach.at \in DOMAIN body
  /\ body[mach.at].op = "Move"
  /\ body[mach.at].source = k

\* C26: in the lowering of while (c) body the body's end is followed by a Goto
\* back to the label at which the evaluation of c begins, the body is entered
\* only when c is true and the statement after the loop only when c is false
C26_WhileShape ==
  /\ pc \in {"done", "run"} =>
       \E l \in Labels : body[l] = [op |-> "Goto", succ |-> FirstStmtLabel]
  /\ AtMove(BodyMark.arg.value) => eval(src_cbl.body[1].condition, env)
  /\ AtMove(AfterMark.arg.value) => ~eval(src_cbl.body[1].condition, env)


----------------------------------------------------------------------------
(* SpecGlobals: getGlobals in a fresh process, on global tables whose      *)
(* int64 initializers range over the edges of int and of int64_t           *)

Int64Edges ==
  { <<0, 0, 0, 0>>, <<0, 0, 0, 1>>, <<2^16 - 1, 2^16 - 1, 2^16 - 1, 2^16 - 1>>,
    INT32_MAX, <<0, 0, 2^15, 0>>, INT32_MIN, <<2^16 - 1, 2^16 - 1, 2^15 - 1, 2^16 - 1>>,
    <<0, 1, 0, 0>>, <<2^15 - 1, 2^16 - 1, 2^16 - 1, 2^16 - 1>>, <<2^15, 0, 0, 0>> }

\* var u = k, v = k' : int64;  var w = true : bool;  in the order of the map
WideTables ==
  LET us == {GlobalVar_make("u", "INT64", read_num(k)) : k \in Int64Edges}
      vs == {GlobalVar_make("v", "INT64", read_num(k)) : k \in Int64Edges}
      ws == {GlobalVar_make("w", "BOOL", BoolConstant_make(t)) : t \in BOOLEAN}
  IN {<<u>> : u \in us} \cup {<<u, v>> : u \in us, v \in vs}
       \cup {<<u, w>> : u \in us, w \in ws}

InitGlobals ==
  /\ src_prog \in {[global_vars |-> gv,
                    callables |-> <<Callable_make("main", <<>>, "UNKNOWN", <<>>)>>] :
                     gv \in WideTables}
  /\ process = NewProcess
  /\ outputs = <<>>
  /\ factory = IdleFactory
  /\ pc = "getGlobals"
  /\ src_cbl = IdleCallable
  /\ gen = NewGen("")
  /\ next_stmt = 1
  /\ cbl = IdleCallable
  /\ last_call = IdleCall
  /\ expr = IdleExpr
  /\ env = IdleEnv
  /\ mach = IdleMach
  /\ mv = IdleMove
  /\ icomp = IdleCompiler

NextGlobals == GetGlobals

SpecGlobals == InitGlobals /\ [][NextGlobals]_vars

\* the sizes of the globals before the i-th
RECURSIVE SizesBefore(_, _)
SizesBefore(gv, i) ==
  IF i = 1 THEN 0 ELSE SizesBefore(gv, i - 1) + sizeOf(gv[i - 1].ty)

\* C27: getGlobals records for an int64 global the literal k of its
\* initializer, for a bool global 1 or 0, and gives each global the offset
\* that is the sum of the sizes of the globals before it
C27_GlobalsRecorded ==
  outputs # <<>> =>
    \A i \in DOMAIN src_prog.global_vars :
      LET glb == src_prog.global_vars[i]
      IN /\ glb.name \in DOMAIN outputs[1].gvars
         /\ glb.ty = "INT64" => outputs[1].gvars[glb.name] = glb.init.value
         /\ glb.ty = "BOOL" =>
              outputs[1].gvars[glb.name] = <<0, 0, 0, IF glb.init.value THEN 1 ELSE 0>>
         /\ process.global_var_offset[glb.name] = SizesBefore(src_prog.global_vars, i)


----------------------------------------------------------------------------
(* SpecFlow: rtl_to_asm on rtl Callables whose schedule is any permutation *)
(* of the body labels                                                      *)

FlowLabels == 0..MaxLabel
NextLabel(l) == (l + 1) % (MaxLabel + 1)
PrevLabel(l) == (l + MaxLabel) % (MaxLabel + 1)

\* the instructions that may stand at label l
FlowInstrs(l) ==
  << [op |-> "Goto", succ |-> NextLabel(l)],
     [op |-> "Bbranch", opcode |-> "JL", arg1 |-> 2, arg2 |-> 5, succ |-> NextLabel(l),
      fail |-> PrevLabel(l)],
     [op |-> "Move", source |-> <<0, 0, 0, 1>>, dest |-> 2, succ |-> PrevLabel(l)],
     [op |-> "Return", arg |-> 2] >>

\* the schedules that hold every label of S once
SchedulesOf(S) ==
  {f \in [1..Cardinality(S) -> S] : \A i, j \in 1..Cardinality(S) : f[i] = f[j] => i = j}

FlowPrograms ==
  { [NewCallable("p") EXCEPT !.body = b, !.schedule = sch] :
      b \in {[l \in FlowLabels |-> FlowInstrs(l)[ch[l]]] :
               ch \in [FlowLabels -> DOMAIN FlowInstrs(0)]},
      sch \in SchedulesOf(FlowLabels) }

InitFlow ==
  /\ cbl \in FlowPrograms
  /\ icomp = NewCompiler("p")
  /\ IdleUnits
  /\ pc = "label"
  /\ next_stmt = 1
  /\ last_call = IdleCall
  /\ src_cbl = IdleCallable
  /\ gen = NewGen("")
  /\ expr = IdleExpr
  /\ env = IdleEnv
  /\ mach = IdleMach
  /\ mv = IdleMove

NextFlow == AppendLabel \/ VisitInstr \/ Finalize

SpecFlow == InitFlow /\ [][NextFlow]_vars

\* the text of a label and of the line that sets it
LabelText(l) == ToString(label_translate(icomp, l))
ExitText == ToString(exit_label(icomp))
SetText(l) == ToString(label_translate(icomp, l) \o <<":">>)
SetExitText == ToString(exit_label(icomp) \o <<":">>)
LineText(i) == ToString(outputs[i].repr_template)

\* line i sets a label of the body or the exit label
SetsLabel(i) == LineText(i) \in {SetText(l) : l \in FlowLabels} \cup {SetExitText}

\* the block of label l: the lines after the one that sets l, up to the next
\* line that sets a label
BlockStart(l) == CHOOSE i \in DOMAIN outputs : LineText(i) = SetText(l)
BlockEnd(l) ==
  CHOOSE j \in DOMAIN outputs :
    /\ j > BlockStart(l)
    /\ SetsLabel(j)
    /\ \A k \in (BlockStart(l) + 1)..(j - 1) : ~SetsLabel(k)
Block(l) == (BlockStart(l) + 1)..(BlockEnd(l) - 1)

\* the labels the jumps of the block of l name
JumpTargets(l) ==
  {ToString(outputs[i].jump_dests[1]) : i \in {k \in Block(l) : Len(outputs[k].jump_dests) > 0}}

\* control runs off the end of the block of l into the next label
FallsThrough(l) == Block(l) = {} \/ ~IsJmp(outputs[BlockEnd(l) - 1])
FallTarget(l) ==
  {LabelText(t) : t \in {u \in FlowLabels : SetText(u) = LineText(BlockEnd(l))}}
    \cup (IF LineText(BlockEnd(l)) = SetExitText THEN {ExitText} ELSE {})

\* where control goes when it leaves the block of l
AsmSuccessors(l) == JumpTargets(l) \cup (IF FallsThrough(l) THEN FallTarget(l) ELSE {})

\* the translations of the rtl successors of instruction i
RtlSuccessors(i) ==
  CASE i.op = "Return" -> {ExitText}
    [] i.op \in {"Ubranch", "Bbranch"} -> {LabelText(i.succ), LabelText(i.fail)}
    [] OTHER -> {LabelText(i.succ)}

\* C28: under every schedule that is a permutation of the body labels, control
\* leaving the block of a label, by a jump or by falling through, goes exactly
\* to the translations of the rtl successors of the instruction at that label,
\* and from a Return to the exit label
C28_ControlFlowPreserved ==
  pc = "final" =>
    \A l \in FlowLabels : AsmSuccessors(l) = RtlSuccessors(cbl.body[l])

\* a schedule out of label order, with a block that falls through after the
\* elision of its jmp, a block that keeps its jmp and a Return
C28_Witness ==
  /\ pc = "final"
  /\ cbl.schedule[1] # 0
  /\ \E l \in FlowLabels : cbl.body[l].op = "Goto" /\ FallsThrough(l)
  /\ \E l \in FlowLabels : cbl.body[l].op = "Move" /\ ~FallsThrough(l)
  /\ \E l \in FlowLabels : cbl.body[l].op = "Return"


----------------------------------------------------------------------------
(* SpecGlobalUse: transform on programs with the global `var u = 1 : int64` *)
(* whose procedure reads u in branches, in loops and after them            *)

PrintU == Print_make(vu)

GlobalUseStmts ==
  { PrintU, Print_make(vx),
    IfElse_make(vb, Block_make(<<PrintU>>), Block_make(<<>>)),
    IfElse_make(vb, Block_make(<<>>), Block_make(<<PrintU>>)),
    IfElse_make(vb, Block_make(<<PrintU>>), Block_make(<<PrintU>>)),
    While_make(vb, Block_make(<<PrintU>>)),
    While_make(BinopApp_make(vu, "Lt", vx), Block_make(<<>>)) }

GlobalUsePrograms ==
  {[global_vars |-> <<GlobalVar_make("u", "INT64", read_num(<<0, 0, 0, 1>>))>>,
    callables |-> <<Callable_make("p", <<<<"b", "BOOL">>, <<"x", "INT64">>>>,
                                  "UNKNOWN", sts)>>] :
     sts \in SeqsUpTo(GlobalUseStmts, MaxStmts)}

InitGlobalUse ==
  /\ src_prog \in GlobalUsePrograms
  /\ process = NewProcess
  /\ outputs = <<>>
  /\ factory = IdleFactory
  /\ pc = "getGlobals"
  /\ src_cbl = IdleCallable
  /\ gen = NewGen("")
  /\ next_stmt = 1
  /\ cbl = IdleCallable
  /\ last_call = IdleCall
  /\ expr = IdleExpr
  /\ env = IdleEnv
  /\ mach = IdleMach
  /\ mv = IdleMove
  /\ icomp = IdleCompiler

NextGlobalUse == NextUnits

SpecGlobalUse == InitGlobalUse /\ [][NextGlobalUse]_vars

\* the pseudos an instruction reads
ReadBy(i) ==
  CASE i.op \in {"Copy", "CopyPM", "Store"} -> {i.src}
    [] i.op = "Binop" -> {i.src, i.dest}
    [] i.op \in {"Unop", "Ubranch"} -> {i.arg}
    [] i.op = "Bbranch" -> {i.arg1, i.arg2}
    [] OTHER -> {}

\* the Loads that initialise pseudo ps from the global v
LoadsOf(v, ps) ==
  {l \in LabelsOf("Load") : body[l].src = v /\ body[l].dest = ps}

\* the labels some path from enter reaches without passing a Load of v into ps
ReachedUnloaded(v, ps) ==
  IF enter \in LoadsOf(v, ps) THEN {} ELSE ReachFrom({enter}, LoadsOf(v, ps), {})

\* C29: every instruction that reads the pseudo bound to a global is dominated
\* by the Load that initialises the pseudo from the global
C29_GlobalLoadDominates ==
  (pc = "done" /\ src_prog # IdleProgram) =>
    \A v \in DOMAIN gen.gvar_table :
      \A l \in ReachedUnloaded(v, gen.gvar_table[v]) \cap Labels :
        gen.gvar_table[v] \notin ReadBy(body[l])


----------------------------------------------------------------------------
(* SpecCond: check::type_check on `proc main() { st }` where st is an if or *)
(* a while over a condition built from constants                           *)

CondExprs ==
  LET one == IntConstant_make(1)
      tt == BoolConstant_make(TRUE)
      ff == BoolConstant_make(FALSE)
  IN { one, tt, ff,
       BinopApp_make(one, "Lt", one), BinopApp_make(one, "Add", one),
       BinopApp_make(tt, "BoolAnd", ff), BinopApp_make(tt, "BoolAnd", one),
       BinopApp_make(one, "Eq", one), BinopApp_make(tt, "Eq", ff) }

CondBodies ==
  { Block_make(<<>>), Block_make(<<Print_make(IntConstant_make(1))>>),
    Block_make(<<Return_make(NoExpr)>>) }

CondStmts ==
  {IfElse_make(c, t, e) : c \in CondExprs, t \in CondBodies, e \in CondBodies}
    \cup {While_make(c, b) : c \in CondExprs, b \in CondBodies}

InitCond ==
  /\ src_prog \in {[global_vars |-> <<>>,
                    callables |-> <<Callable_make("main", <<>>, "UNKNOWN", <<st>>)>>] :
                     st \in CondStmts}
  /\ pc = "type_check"
  /\ outputs = <<>>
  /\ process = NewProcess
  /\ factory = IdleFactory
  /\ src_cbl = IdleCallable
  /\ gen = NewGen("")
  /\ next_stmt = 1
  /\ cbl = IdleCallable
  /\ last_call = IdleCall
  /\ expr = IdleExpr
  /\ env = IdleEnv
  /\ mach = IdleMach
  /\ mv = IdleMove
  /\ icomp = IdleCompiler

NextCond == TypeCheck

SpecCond == InitCond /\ [][NextCond]_vars

\* the if or while of the program and the type of its condition
CondStmt == src_prog.callables[1].body[1]
CondType == check_visitExpr(CondStmt.condition)
NotBoolMessage ==
  (IF CondStmt.k = "IfElse" THEN "if" ELSE "while") \o " condition is not a bool expression"

\* C30: an if or a while whose condition is well typed is accepted when the
\* condition has type bool and rejected with "condition is not a bool
\* expression" when it has another type
C30_ConditionMustBeBool ==
  (pc \in {"checked", "error"} /\ CondType.msg = "") =>
    /\ CondType.ty = "BOOL" => pc = "checked"
    /\ CondType.ty # "BOOL" => (pc = "error" /\ outputs[1].what = NotBoolMessage)


====
